---- MODULE Spec2Model ----
(***************************************************************************)
(* Client-side interview session state machines of interviewflow-pro:      *)
(*   - InterviewSession        (text round)                                *)
(*   - CodingInterviewSession  (coding round, two source variants)         *)
(*   - VoiceInterviewSession   (voice round)                               *)
(*   - VoiceChatPanel          (speech capture / playback side panel)      *)
(*   - the recognition.onresult handlers of the voice components           *)
(*                                                                         *)
(* JavaScript strings are sequences of one-character strings.  JavaScript  *)
(* arrays are sequences; array index i is position i + 1.  Scores are      *)
(* counted in tenths of a point so that Math.round is not the identity.    *)
(***************************************************************************)
EXTENDS Integers, Sequences, FiniteSets, TLC

\* --------------------------------------------------------------- bounds
MaxQ == 2          \* questions per interview
MaxPending == 2    \* submit requests in flight at once
MaxRequests == MaxQ   \* submit requests issued per session

\* ------------------------------------------------------ string helpers
IsSpace(c) == c \in {" ", "\n"}

RECURSIVE TrimStart(_)
TrimStart(s) ==
  IF s = <<>> THEN <<>>
  ELSE IF IsSpace(Head(s)) THEN TrimStart(Tail(s)) ELSE s

RECURSIVE TrimEnd(_)
TrimEnd(s) ==
  IF s = <<>> THEN <<>>
  ELSE IF IsSpace(s[Len(s)]) THEN TrimEnd(SubSeq(s, 1, Len(s) - 1)) ELSE s

\* String.prototype.trim
Trim(s) == TrimEnd(TrimStart(s))

\* Math.round on a non-negative number given in tenths; the result is an integer
MathRound(t) == (t + 5) \div 10

\* ------------------------------------------------------- array helpers
Undefined == [kind |-> "undefined"]
Null == [kind |-> "null"]

\* arr[i]
ArrayGet(arr, i) == IF i + 1 \in DOMAIN arr THEN arr[i + 1] ELSE Undefined

\* copy = [...arr]; copy[i] = v   (an index past the end extends the array with holes)
ArraySet(arr, i, v) ==
  IF i < Len(arr) THEN [arr EXCEPT ![i + 1] = v]
  ELSE arr \o [k \in 1..(i - Len(arr)) |-> Undefined] \o <<v>>

\* new Array(n).fill(v)
ArrayFill(n, v) == [k \in 1..n |-> v]

\* the feedbacks handed over without filtering
FilterKeepAll(arr) == arr

\* feedbacks.filter(f => f !== null)  /  feedbacks.filter(Boolean)
RECURSIVE FilterNonNull(_)
FilterNonNull(arr) ==
  IF arr = <<>> THEN <<>>
  ELSE IF Head(arr) = Null THEN FilterNonNull(Tail(arr))
       ELSE <<Head(arr)>> \o FilterNonNull(Tail(arr))

\* `Language: ${language}\n\n${code}`
FormatCode(language, code) == <<"Language: ", language, "\n", "\n">> \o code

\* answers.map((a, i) => `Language: ${languages[i]}\n\n${a}`)
FormatAnswers(as, ls) == [k \in DOMAIN as |-> FormatCode(ls[k], as[k])]

\* ----------------------------------------------------------- inputs
Answers == {<<>>, <<" ">>, <<"a">>}           \* what a user can type
Langs == {"python", "java"}                  \* editor languages
ScoreTenths == {555, 1000}                   \* scores the gateway returns (55.5, 100)
TextVariants == {"text"}
CodingVariants == {"coding", "codingNav"}
NavVariants == {"text", "codingNav"}          \* variants with previous / question navigator

Feedback(score) == [kind |-> "feedback", score |-> score, aiFeedback |-> "fb"]
NoBundle == [kind |-> "none"]
NoUtt == [kind |-> "none"]
NoCb == [kind |-> "none"]

VARIABLES
  variant,        \* which session component is mounted
  nq,             \* interview.questions.length
  currentIndex,   \* currentIndex / currentQuestionIndex
  answers,        \* answers state
  languages,      \* languages state (coding round)
  feedbacks,      \* feedbacks state
  loading,        \* loading state (text round)
  pending,        \* submit requests in flight, each with the closure of its handler
  requests,       \* number of submit requests issued to the gateway
  bundle,         \* argument of the last onComplete call
  completeCalls,  \* number of onComplete calls
  lastOp,         \* the handler that ran last
  lastToast,      \* the toast that handler raised ("none" when it raised none)
  jumped,         \* previous / navigator was used
  overlapped,     \* a submit was issued while another was in flight
  transcript,     \* voice: transcript state (the answer text)
  isProcessing,   \* voice: isProcessing state
  autoSpeak,      \* voice: autoSpeak state
  isSpeaking,     \* voice: isSpeaking state
  synthUtt,       \* voice: the utterance speechSynthesis holds (queued or speaking)
  cancelled,      \* voice: callbacks of utterances removed by cancel(), event not yet delivered
  timers,         \* voice: pending 500 ms "read the next question" timers
  isRecording,       \* panel: isRecording state
  isRecordingRef,    \* panel: isRecordingRef.current
  isSpeakingRef,     \* panel: isSpeakingRef.current
  currentTranscript, \* panel: currentTranscript state
  recog,             \* panel: the browser recognizer: "idle", "running", "stopping", "failed"
  synthQueue,        \* panel: utterances speechSynthesis holds, the head is the one speaking
  chains,            \* panel: per speakText call, its chunk count, its currentChunk, and whether cancel() hit it
  panelTimers,       \* panel: pending setTimeout callbacks
  inflight,          \* panel: chat requests awaiting their response
  sent,              \* panel: the messages handed to sendMessage
  panelCancelled,    \* panel: chains whose utterance was removed by cancel(), event not yet delivered
  chatMessage,       \* voice: chatMessage state (the chat input)
  chatTranscript,    \* voice: chatTranscript state
  isChatListening,   \* voice: isChatListening state
  finalText,         \* the letters of the finalized segments heard since the transcript was cleared
  sentSource,        \* per message sent onward, the letters the user typed or the recognizer finalized
  editorCode,        \* editor: code state (the buffer)
  editorLanguage,    \* editor: language state
  output,            \* editor: output state (the execution result shown)
  executing,         \* editor: executing state
  runs,              \* editor: execution requests in flight, oldest first
  expandedIndex,     \* results: expandedIndex state ({} for null, else {index})
  overallShown,      \* results: the overall score the page displays ({} before the render)
  labelShown,        \* results: the label the page displays for it ({} before the render)
  speechText,        \* chunking: the text handed to speakText
  speechChunks,      \* chunking: the chunks speakText made of it (<<>> before it ran)
  elapsedTime,       \* timers: elapsedTime state
  autoSaved,         \* timers: autoSaved state
  ticker,            \* timers: the one-second interval is set
  saveTimer,         \* timers: the auto-save timeout is pending
  torn               \* timers: the component was unmounted

editorVars == <<editorCode, editorLanguage, output, executing, runs>>

resultsVars == <<expandedIndex, overallShown, labelShown>>
chunkVars == <<speechText, speechChunks>>
timerVars == <<elapsedTime, autoSaved, ticker, saveTimer, torn>>

\* what no handler of the session components touches
mountVars == <<variant, nq, editorVars, resultsVars, chunkVars, timerVars>>

\* no code editor of its own is mounted
NoEditor ==
  /\ editorCode = <<>>
  /\ editorLanguage = "python"
  /\ output = Null
  /\ executing = FALSE
  /\ runs = <<>>

\* no results page is shown
NoResults ==
  /\ expandedIndex = {}
  /\ overallShown = {}
  /\ labelShown = {}

\* the timer effects are not looked at
NoTimers ==
  /\ elapsedTime = 0
  /\ autoSaved = FALSE
  /\ ticker = FALSE
  /\ saveTimer = FALSE
  /\ torn = FALSE

\* speakText is not looked at on its own
NoChunks ==
  /\ speechText = <<>>
  /\ speechChunks = <<>>
  /\ NoTimers

sessionVars == <<mountVars, currentIndex, answers, languages, feedbacks, loading,
                 pending, requests, bundle, completeCalls, lastOp, lastToast,
                 jumped, overlapped>>

voiceVars == <<transcript, isProcessing, autoSpeak, isSpeaking, synthUtt, cancelled, timers>>

chatVars == <<chatMessage, chatTranscript, isChatListening>>
heardVars == <<finalText>>

panelVars == <<isRecording, isRecordingRef, isSpeakingRef, currentTranscript, recog,
               synthQueue, chains, panelTimers, inflight, sent, panelCancelled,
               chatVars, heardVars, sentSource>>

\* what the chat panel leaves alone
sessionOnlyVars == <<mountVars, currentIndex, answers, languages, feedbacks, loading,
                     pending, requests, bundle, completeCalls, jumped, overlapped,
                     transcript, autoSpeak, synthUtt, cancelled, timers>>

vars == <<sessionVars, voiceVars, panelVars>>

Mounted == bundle = NoBundle
currentAnswer == ArrayGet(answers, currentIndex)
currentFeedback == ArrayGet(feedbacks, currentIndex)

\* ------------------------------------------------------------- Init
InitSession(v) ==
  /\ variant = v
  /\ nq \in 1..MaxQ
  /\ NoEditor /\ NoResults /\ NoChunks
  /\ currentIndex = 0
  /\ answers = ArrayFill(nq, <<>>)
  /\ languages = ArrayFill(nq, "python")
  /\ feedbacks = ArrayFill(nq, Null)
  /\ loading = FALSE
  /\ pending = {}
  /\ requests = 0
  /\ bundle = NoBundle
  /\ completeCalls = 0
  /\ lastOp = "init"
  /\ lastToast = "none"
  /\ jumped = FALSE
  /\ overlapped = FALSE
  /\ transcript = <<>>
  /\ isProcessing = FALSE
  /\ autoSpeak = TRUE
  /\ isSpeaking = FALSE
  /\ synthUtt = NoUtt
  /\ cancelled = {}
  /\ timers = {}
  /\ isRecording = FALSE
  /\ isRecordingRef = FALSE
  /\ isSpeakingRef = FALSE
  /\ currentTranscript = <<>>
  /\ recog = "idle"
  /\ synthQueue = <<>>
  /\ chains = <<>>
  /\ panelTimers = {}
  /\ inflight = {}
  /\ sent = <<>>
  /\ panelCancelled = {}
  /\ chatMessage = <<>>
  /\ chatTranscript = <<>>
  /\ isChatListening = FALSE
  /\ finalText = <<>>
  /\ sentSource = <<>>

\* -------------------------------------------- InterviewSession (text)
updateAnswer(value) ==
  /\ variant \in TextVariants /\ Mounted
  /\ UNCHANGED voiceVars /\ UNCHANGED panelVars
  /\ currentFeedback = Null
  /\ answers' = ArraySet(answers, currentIndex, value)
  /\ lastOp' = "updateAnswer" /\ lastToast' = "none"
  /\ UNCHANGED <<mountVars, currentIndex, languages, feedbacks, loading, pending,
                 requests, bundle, completeCalls, jumped, overlapped>>

\* disabled={loading || !currentAnswer.trim()} on the Submit button
TextSubmitEnabled ==
  /\ currentFeedback = Null
  /\ ~loading
  /\ Trim(currentAnswer) # <<>>

TextSubmitRequest ==
  [id |-> requests, idx |-> currentIndex, payload |-> currentAnswer,
   input |-> currentAnswer, code |-> currentAnswer, language |-> "none",
   fbSnap |-> feedbacks, ansSnap |-> answers, langSnap |-> languages]

TextHandleSubmitAnswer ==
  /\ variant \in TextVariants /\ Mounted
  /\ UNCHANGED voiceVars /\ UNCHANGED panelVars
  /\ TextSubmitEnabled
  /\ requests < MaxRequests
  /\ IF Trim(currentAnswer) = <<>>
     THEN /\ lastOp' = "submitBlank" /\ lastToast' = "Answer required"
          /\ UNCHANGED <<loading, pending, requests, overlapped>>
     ELSE /\ loading' = TRUE
          /\ pending' = pending \cup {TextSubmitRequest}
          /\ requests' = requests + 1
          /\ overlapped' = (overlapped \/ pending # {})
          /\ lastOp' = "submit" /\ lastToast' = "none"
  /\ UNCHANGED <<mountVars, currentIndex, answers, languages, feedbacks, bundle,
                 completeCalls, jumped>>

\* the response written at the question shown when it arrives
TextSubmitResolvedAtCurrent(r, score) ==
  /\ variant \in TextVariants /\ Mounted
  /\ UNCHANGED voiceVars /\ UNCHANGED panelVars
  /\ r \in pending
  /\ pending' = pending \ {r}
  /\ feedbacks' = ArraySet(feedbacks, currentIndex, Feedback(score))
  /\ loading' = FALSE
  /\ lastOp' = "submitResolved" /\ lastToast' = "none"
  /\ UNCHANGED <<mountVars, currentIndex, answers, languages, requests, bundle,
                 completeCalls, jumped, overlapped>>

TextSubmitResolved(r, score) ==
  /\ variant \in TextVariants /\ Mounted
  /\ UNCHANGED voiceVars /\ UNCHANGED panelVars
  /\ r \in pending
  /\ pending' = pending \ {r}
  /\ feedbacks' = ArraySet(r.fbSnap, r.idx, Feedback(score))
  /\ loading' = FALSE
  /\ lastOp' = "submitResolved" /\ lastToast' = "none"
  /\ UNCHANGED <<mountVars, currentIndex, answers, languages, requests, bundle,
                 completeCalls, jumped, overlapped>>

TextSubmitRejected(r) ==
  /\ variant \in TextVariants /\ Mounted
  /\ UNCHANGED voiceVars /\ UNCHANGED panelVars
  /\ r \in pending
  /\ pending' = pending \ {r}
  /\ loading' = FALSE
  /\ lastOp' = "submitFailed" /\ lastToast' = "Submission failed"
  /\ UNCHANGED <<mountVars, currentIndex, answers, languages, feedbacks, requests,
                 bundle, completeCalls, jumped, overlapped>>

\* ---------------------------------- CodingInterviewSession (both variants)
CodingSubmitRequest(code, language) ==
  [id |-> requests, idx |-> currentIndex, payload |-> FormatCode(language, code),
   input |-> code, code |-> code, language |-> language,
   fbSnap |-> feedbacks, ansSnap |-> answers, langSnap |-> languages]

\* handleSubmitAnswer without the !code.trim() check
CodingHandleSubmitUnchecked(code, language) ==
  /\ variant \in CodingVariants /\ Mounted
  /\ UNCHANGED voiceVars /\ UNCHANGED panelVars
  /\ currentFeedback = Null
  /\ Cardinality(pending) < MaxPending
  /\ requests < MaxRequests
  /\ pending' = pending \cup {CodingSubmitRequest(code, language)}
  /\ requests' = requests + 1
  /\ overlapped' = (overlapped \/ pending # {})
  /\ lastOp' = (IF Trim(code) = <<>> THEN "submitBlank" ELSE "submit")
  /\ lastToast' = "none"
  /\ UNCHANGED <<mountVars, currentIndex, answers, languages, feedbacks, loading,
                 bundle, completeCalls, jumped>>

\* onSubmit(code, language) from the CodeEditor, which is rendered while the
\* current question has no feedback; its Submit button has no in-flight guard
CodingHandleSubmitAnswer(code, language) ==
  /\ variant \in CodingVariants /\ Mounted
  /\ UNCHANGED voiceVars /\ UNCHANGED panelVars
  /\ currentFeedback = Null
  /\ IF Trim(code) = <<>>
     THEN /\ lastOp' = "submitBlank" /\ lastToast' = "Code required"
          /\ UNCHANGED <<pending, requests, overlapped>>
     ELSE /\ Cardinality(pending) < MaxPending
          /\ requests < MaxRequests
          /\ pending' = pending \cup {CodingSubmitRequest(code, language)}
          /\ requests' = requests + 1
          /\ overlapped' = (overlapped \/ pending # {})
          /\ lastOp' = "submit" /\ lastToast' = "none"
  /\ UNCHANGED <<mountVars, currentIndex, answers, languages, feedbacks, loading,
                 bundle, completeCalls, jumped>>

\* the base array each setState call of the response handler starts from:
\* CodingInterviewSession.tsx uses functional updates (the state at response time),
\* the navigator variant copies the arrays its closure captured at submit time
CodingBase(r, current, snap) == IF variant = "coding" THEN current ELSE snap

CodingSubmitResolved(r, score) ==
  /\ variant \in CodingVariants /\ Mounted
  /\ UNCHANGED voiceVars /\ UNCHANGED panelVars
  /\ r \in pending
  /\ pending' = pending \ {r}
  /\ feedbacks' = ArraySet(CodingBase(r, feedbacks, r.fbSnap), r.idx,
                           Feedback(10 * MathRound(score)))
  /\ answers' = ArraySet(CodingBase(r, answers, r.ansSnap), r.idx, r.code)
  /\ languages' = ArraySet(CodingBase(r, languages, r.langSnap), r.idx, r.language)
  /\ lastOp' = "submitResolved" /\ lastToast' = "Solution submitted"
  /\ UNCHANGED <<mountVars, currentIndex, loading, requests, bundle, completeCalls,
                 jumped, overlapped>>

CodingSubmitRejected(r) ==
  /\ variant \in CodingVariants /\ Mounted
  /\ UNCHANGED voiceVars /\ UNCHANGED panelVars
  /\ r \in pending
  /\ pending' = pending \ {r}
  /\ lastOp' = "submitFailed" /\ lastToast' = "Submission failed"
  /\ UNCHANGED <<mountVars, currentIndex, answers, languages, feedbacks, loading,
                 requests, bundle, completeCalls, jumped, overlapped>>

\* ------------------------------------------------ navigation (text, coding)
\* the answers handed to onComplete
BundleAnswers ==
  IF variant \in CodingVariants THEN FormatAnswers(answers, languages) ELSE answers

CompleteBundle ==
  [kind |-> "bundle", questions |-> nq, answers |-> BundleAnswers,
   feedbacks |-> FilterNonNull(feedbacks)]

\* handleNext with the button rendered whether or not there is feedback
handleNextUnguarded ==
  /\ variant \in TextVariants \cup CodingVariants /\ Mounted
  /\ UNCHANGED voiceVars /\ UNCHANGED panelVars
  /\ IF currentIndex < nq - 1
     THEN /\ currentIndex' = currentIndex + 1
          /\ lastOp' = "next"
          /\ UNCHANGED <<bundle, completeCalls>>
     ELSE /\ bundle' = CompleteBundle
          /\ completeCalls' = completeCalls + 1
          /\ lastOp' = "complete"
          /\ UNCHANGED currentIndex
  /\ lastToast' = "none"
  /\ UNCHANGED <<mountVars, answers, languages, feedbacks, loading, pending,
                 requests, jumped, overlapped>>

\* handleNext comparing against questions.length instead of questions.length - 1
handleNextOffByOne ==
  /\ variant \in TextVariants \cup CodingVariants /\ Mounted
  /\ UNCHANGED voiceVars /\ UNCHANGED panelVars
  /\ currentFeedback # Null
  /\ IF currentIndex < nq
     THEN /\ currentIndex' = currentIndex + 1
          /\ lastOp' = "next"
          /\ UNCHANGED <<bundle, completeCalls>>
     ELSE /\ bundle' = CompleteBundle
          /\ completeCalls' = completeCalls + 1
          /\ lastOp' = "complete"
          /\ UNCHANGED currentIndex
  /\ lastToast' = "none"
  /\ UNCHANGED <<mountVars, answers, languages, feedbacks, loading, pending,
                 requests, jumped, overlapped>>

\* the Next / Complete button is rendered only when currentFeedback is set
handleNext ==
  /\ variant \in TextVariants \cup CodingVariants /\ Mounted
  /\ UNCHANGED voiceVars /\ UNCHANGED panelVars
  /\ currentFeedback # Null
  /\ IF currentIndex < nq - 1
     THEN /\ currentIndex' = currentIndex + 1
          /\ lastOp' = "next"
          /\ UNCHANGED <<bundle, completeCalls>>
     ELSE /\ bundle' = CompleteBundle
          /\ completeCalls' = completeCalls + 1
          /\ lastOp' = "complete"
          /\ UNCHANGED currentIndex
  /\ lastToast' = "none"
  /\ UNCHANGED <<mountVars, answers, languages, feedbacks, loading, pending,
                 requests, jumped, overlapped>>

handlePrevious ==
  /\ variant \in NavVariants /\ Mounted
  /\ UNCHANGED voiceVars /\ UNCHANGED panelVars
  /\ currentIndex > 0
  /\ currentIndex' = currentIndex - 1
  /\ jumped' = TRUE
  /\ lastOp' = "previous" /\ lastToast' = "none"
  /\ UNCHANGED <<mountVars, answers, languages, feedbacks, loading, pending,
                 requests, bundle, completeCalls, overlapped>>

\* question navigator: onClick={() => setCurrentIndex(index)}
jumpTo(index) ==
  /\ variant \in NavVariants /\ Mounted
  /\ UNCHANGED voiceVars /\ UNCHANGED panelVars
  /\ index \in 0..(nq - 1)
  /\ index # currentIndex
  /\ currentIndex' = index
  /\ jumped' = TRUE
  /\ lastOp' = "jumpTo" /\ lastToast' = "none"
  /\ UNCHANGED <<mountVars, answers, languages, feedbacks, loading, pending,
                 requests, bundle, completeCalls, overlapped>>

\* ------------------------------- VoiceInterviewSession (speech synthesis)
VoiceVariants == {"voice"}

\* the component renders currentQuestion.questionText: it is mounted while no
\* bundle was handed over and the index names a question
VoiceMounted == Mounted /\ currentIndex < nq

Synth == [utt |-> synthUtt, cancelled |-> cancelled]

\* synthRef.current.cancel(): the utterance leaves the engine; its end or error
\* event is delivered later
SynthCancel(s) ==
  IF s.utt = NoUtt THEN s
  ELSE [utt |-> NoUtt, cancelled |-> s.cancelled \cup {s.utt.cb}]

\* speakText with speech on: cancel(), then speak(utterance)
SynthSpeak(s, cb) ==
  [utt |-> [kind |-> "utterance", started |-> FALSE, cb |-> cb],
   cancelled |-> SynthCancel(s).cancelled]

\* speakText(text) without a callback, under the autoSpeak value of its closure
SpeakText(s, auto) == IF auto THEN SynthSpeak(s, NoCb) ELSE s

\* the effect on [currentQuestionIndex]: its cleanup cancels, then the effect
\* reads the question when there is one and autoSpeak is on
IndexEffect(s, auto) == SpeakText(SynthCancel(s), auto)

VoiceBundle(as, fs) ==
  [kind |-> "bundle", questions |-> nq, answers |-> as, feedbacks |-> fs]

\* the callback handleSubmitAnswer passes to speakText; c is its closure,
\* s the synthesis state it runs in
RunContinuation(c, s) ==
  IF c.idx < nq - 1
  THEN /\ IF VoiceMounted
          THEN /\ currentIndex' = currentIndex + 1
               /\ transcript' = <<>>
               /\ LET e == IndexEffect(s, autoSpeak /\ currentIndex + 1 < nq)
                  IN  synthUtt' = e.utt /\ cancelled' = e.cancelled
          ELSE /\ UNCHANGED <<currentIndex, transcript>>
               /\ synthUtt' = s.utt /\ cancelled' = s.cancelled
       /\ timers' = timers \cup {[idx |-> c.idx, autoSpeak |-> c.autoSpeak]}
       /\ UNCHANGED <<bundle, completeCalls>>
  ELSE /\ bundle' = VoiceBundle(Append(c.ansSnap, c.answer), Append(c.fbSnap, c.feedback))
       /\ completeCalls' = completeCalls + 1
       /\ LET e == IF VoiceMounted THEN SynthCancel(s) ELSE s
          IN  synthUtt' = e.utt /\ cancelled' = e.cancelled
       /\ UNCHANGED <<currentIndex, transcript, timers>>

\* textarea onChange={(e) => setTranscript(e.target.value)}
setTranscript(value) ==
  /\ variant \in VoiceVariants /\ VoiceMounted
  /\ UNCHANGED panelVars
  /\ transcript' = value
  /\ lastOp' = "setTranscript" /\ lastToast' = "none"
  /\ UNCHANGED <<mountVars, currentIndex, answers, languages, feedbacks, loading,
                 pending, requests, bundle, completeCalls, jumped, overlapped,
                 isProcessing, autoSpeak, isSpeaking, synthUtt, cancelled, timers>>

\* onClick={() => setAutoSpeak(!autoSpeak)}
toggleAutoSpeak ==
  /\ variant \in VoiceVariants /\ VoiceMounted
  /\ UNCHANGED panelVars
  /\ autoSpeak' = ~autoSpeak
  /\ lastOp' = "toggleAutoSpeak" /\ lastToast' = "none"
  /\ UNCHANGED <<mountVars, currentIndex, answers, languages, feedbacks, loading,
                 pending, requests, bundle, completeCalls, jumped, overlapped,
                 transcript, isProcessing, isSpeaking, synthUtt, cancelled, timers>>

\* disabled={!transcript.trim() || isProcessing} on the Submit button
VoiceSubmitEnabled == Trim(transcript) # <<>> /\ ~isProcessing

VoiceSubmitRequest ==
  [id |-> requests, idx |-> currentIndex, payload |-> Trim(transcript),
   input |-> transcript, answer |-> Trim(transcript), ansSnap |-> answers, fbSnap |-> feedbacks,
   autoSpeak |-> autoSpeak]

VoiceHandleSubmitAnswer ==
  /\ variant \in VoiceVariants /\ VoiceMounted
  /\ UNCHANGED panelVars
  /\ VoiceSubmitEnabled
  /\ requests < MaxRequests
  /\ IF Trim(transcript) = <<>>
     THEN /\ lastOp' = "submitBlank" /\ lastToast' = "No Answer"
          /\ UNCHANGED <<pending, requests, isProcessing, isSpeaking, synthUtt, cancelled>>
     ELSE /\ isProcessing' = TRUE
          /\ LET e == SynthCancel(Synth) IN synthUtt' = e.utt /\ cancelled' = e.cancelled
          /\ isSpeaking' = FALSE
          /\ pending' = pending \cup {VoiceSubmitRequest}
          /\ requests' = requests + 1
          /\ lastOp' = "submit" /\ lastToast' = "none"
  /\ UNCHANGED <<mountVars, currentIndex, answers, languages, feedbacks, loading,
                 bundle, completeCalls, jumped, overlapped, transcript, autoSpeak, timers>>

VoiceClosure(r, score) ==
  [kind |-> "advance", idx |-> r.idx, answer |-> r.answer, feedback |-> Feedback(score),
   ansSnap |-> r.ansSnap, fbSnap |-> r.fbSnap, autoSpeak |-> r.autoSpeak]

\* response.success && response.feedbackText
VoiceSubmitResolved(r, score) ==
  /\ variant \in VoiceVariants /\ VoiceMounted
  /\ UNCHANGED panelVars
  /\ r \in pending
  /\ pending' = pending \ {r}
  /\ answers' = Append(answers, r.answer)
  /\ feedbacks' = Append(feedbacks, Feedback(score))
  /\ IF r.autoSpeak
     THEN /\ LET e == SynthSpeak(Synth, VoiceClosure(r, score))
             IN  synthUtt' = e.utt /\ cancelled' = e.cancelled
          /\ UNCHANGED <<currentIndex, transcript, timers, bundle, completeCalls>>
     ELSE RunContinuation(VoiceClosure(r, score), Synth)
  /\ isProcessing' = FALSE
  /\ lastOp' = "submitResolved" /\ lastToast' = "Answer Submitted"
  /\ UNCHANGED <<mountVars, languages, loading, requests, jumped, overlapped,
                 autoSpeak, isSpeaking>>

\* the response resolved without success or without feedbackText
VoiceSubmitNoSuccess(r) ==
  /\ variant \in VoiceVariants /\ VoiceMounted
  /\ UNCHANGED panelVars
  /\ r \in pending
  /\ pending' = pending \ {r}
  /\ isProcessing' = FALSE
  /\ lastOp' = "submitFailed" /\ lastToast' = "none"
  /\ UNCHANGED <<mountVars, currentIndex, answers, languages, feedbacks, loading,
                 requests, bundle, completeCalls, jumped, overlapped, transcript,
                 autoSpeak, isSpeaking, synthUtt, cancelled, timers>>

VoiceSubmitRejected(r) ==
  /\ variant \in VoiceVariants /\ VoiceMounted
  /\ UNCHANGED panelVars
  /\ r \in pending
  /\ pending' = pending \ {r}
  /\ isProcessing' = FALSE
  /\ lastOp' = "submitFailed" /\ lastToast' = "Submission Failed"
  /\ UNCHANGED <<mountVars, currentIndex, answers, languages, feedbacks, loading,
                 requests, bundle, completeCalls, jumped, overlapped, transcript,
                 autoSpeak, isSpeaking, synthUtt, cancelled, timers>>

\* handleSkip recording an empty answer for the skipped question
handleSkipRecording ==
  /\ variant \in VoiceVariants /\ VoiceMounted
  /\ UNCHANGED panelVars
  /\ ~isProcessing
  /\ answers' = Append(answers, <<>>)
  /\ IF currentIndex < nq - 1
     THEN /\ currentIndex' = currentIndex + 1
          /\ transcript' = <<>>
          /\ isSpeaking' = FALSE
          /\ LET e == IndexEffect(SpeakText(SynthCancel(Synth), autoSpeak), autoSpeak)
             IN  synthUtt' = e.utt /\ cancelled' = e.cancelled
          /\ lastOp' = "skip"
          /\ UNCHANGED <<bundle, completeCalls>>
     ELSE /\ bundle' = VoiceBundle(Append(answers, <<>>), feedbacks)
          /\ completeCalls' = completeCalls + 1
          /\ LET e == SynthCancel(Synth) IN synthUtt' = e.utt /\ cancelled' = e.cancelled
          /\ lastOp' = "skipComplete"
          /\ UNCHANGED <<currentIndex, transcript, isSpeaking>>
  /\ lastToast' = "none"
  /\ UNCHANGED <<mountVars, languages, feedbacks, loading, pending, requests,
                 jumped, overlapped, isProcessing, autoSpeak, timers>>

\* the Skip button: disabled={isProcessing}
handleSkip ==
  /\ variant \in VoiceVariants /\ VoiceMounted
  /\ UNCHANGED panelVars
  /\ ~isProcessing
  /\ IF currentIndex < nq - 1
     THEN /\ currentIndex' = currentIndex + 1
          /\ transcript' = <<>>
          /\ isSpeaking' = FALSE
          /\ LET e == IndexEffect(SpeakText(SynthCancel(Synth), autoSpeak), autoSpeak)
             IN  synthUtt' = e.utt /\ cancelled' = e.cancelled
          /\ lastOp' = "skip"
          /\ UNCHANGED <<bundle, completeCalls>>
     ELSE /\ bundle' = VoiceBundle(answers, feedbacks)
          /\ completeCalls' = completeCalls + 1
          /\ LET e == SynthCancel(Synth) IN synthUtt' = e.utt /\ cancelled' = e.cancelled
          /\ lastOp' = "skipComplete"
          /\ UNCHANGED <<currentIndex, transcript, isSpeaking>>
  /\ lastToast' = "none"
  /\ UNCHANGED <<mountVars, answers, languages, feedbacks, loading, pending, requests,
                 jumped, overlapped, isProcessing, autoSpeak, timers>>

\* the stop-speaking button, rendered while isSpeaking
stopSpeaking ==
  /\ variant \in VoiceVariants /\ VoiceMounted
  /\ UNCHANGED panelVars
  /\ isSpeaking
  /\ LET e == SynthCancel(Synth) IN synthUtt' = e.utt /\ cancelled' = e.cancelled
  /\ isSpeaking' = FALSE
  /\ lastOp' = "stopSpeaking" /\ lastToast' = "none"
  /\ UNCHANGED <<mountVars, currentIndex, answers, languages, feedbacks, loading,
                 pending, requests, bundle, completeCalls, jumped, overlapped,
                 transcript, isProcessing, autoSpeak, timers>>

\* utterance.onstart
utteranceOnStart ==
  /\ variant \in VoiceVariants
  /\ UNCHANGED panelVars
  /\ synthUtt # NoUtt /\ ~synthUtt.started
  /\ synthUtt' = [synthUtt EXCEPT !.started = TRUE]
  /\ isSpeaking' = TRUE
  /\ lastOp' = "utteranceStart" /\ lastToast' = "none"
  /\ UNCHANGED <<mountVars, currentIndex, answers, languages, feedbacks, loading,
                 pending, requests, bundle, completeCalls, jumped, overlapped,
                 transcript, isProcessing, autoSpeak, cancelled, timers>>

\* utterance.onend of the utterance being spoken
utteranceOnEnd ==
  /\ variant \in VoiceVariants
  /\ UNCHANGED panelVars
  /\ synthUtt # NoUtt /\ synthUtt.started
  /\ isSpeaking' = FALSE
  /\ IF synthUtt.cb # NoCb
     THEN RunContinuation(synthUtt.cb, [utt |-> NoUtt, cancelled |-> cancelled])
     ELSE /\ synthUtt' = NoUtt
          /\ UNCHANGED <<currentIndex, transcript, timers, bundle, completeCalls, cancelled>>
  /\ lastOp' = "utteranceEnd" /\ lastToast' = "none"
  /\ UNCHANGED <<mountVars, answers, languages, feedbacks, loading, pending, requests,
                 jumped, overlapped, isProcessing, autoSpeak>>

\* utterance.onerror of the utterance the engine holds: the callback is dropped
utteranceOnError ==
  /\ variant \in VoiceVariants
  /\ UNCHANGED panelVars
  /\ synthUtt # NoUtt
  /\ synthUtt' = NoUtt
  /\ isSpeaking' = FALSE
  /\ lastOp' = "utteranceError" /\ lastToast' = "none"
  /\ UNCHANGED <<mountVars, currentIndex, answers, languages, feedbacks, loading,
                 pending, requests, bundle, completeCalls, jumped, overlapped,
                 transcript, isProcessing, autoSpeak, cancelled, timers>>

\* the event of an utterance removed by cancel(): browsers deliver either an
\* error event ("interrupted" / "canceled") or an end event
cancelledOnError(cb) ==
  /\ variant \in VoiceVariants
  /\ UNCHANGED panelVars
  /\ cb \in cancelled
  /\ cancelled' = cancelled \ {cb}
  /\ isSpeaking' = FALSE
  /\ lastOp' = "cancelledError" /\ lastToast' = "none"
  /\ UNCHANGED <<mountVars, currentIndex, answers, languages, feedbacks, loading,
                 pending, requests, bundle, completeCalls, jumped, overlapped,
                 transcript, isProcessing, autoSpeak, synthUtt, timers>>

cancelledOnEnd(cb) ==
  /\ variant \in VoiceVariants
  /\ UNCHANGED panelVars
  /\ cb \in cancelled
  /\ isSpeaking' = FALSE
  /\ IF cb # NoCb
     THEN RunContinuation(cb, [utt |-> synthUtt, cancelled |-> cancelled \ {cb}])
     ELSE /\ cancelled' = cancelled \ {cb}
          /\ UNCHANGED <<currentIndex, transcript, timers, bundle, completeCalls, synthUtt>>
  /\ lastOp' = "cancelledEnd" /\ lastToast' = "none"
  /\ UNCHANGED <<mountVars, answers, languages, feedbacks, loading, pending, requests,
                 jumped, overlapped, isProcessing, autoSpeak>>

\* the 500 ms timer of the continuation: speakText of the next question
nextQuestionTimer(t) ==
  /\ variant \in VoiceVariants
  /\ UNCHANGED panelVars
  /\ t \in timers
  /\ timers' = timers \ {t}
  /\ LET e == SpeakText(Synth, t.autoSpeak) IN synthUtt' = e.utt /\ cancelled' = e.cancelled
  /\ lastOp' = "nextQuestionTimer" /\ lastToast' = "none"
  /\ UNCHANGED <<mountVars, currentIndex, answers, languages, feedbacks, loading,
                 pending, requests, bundle, completeCalls, jumped, overlapped,
                 transcript, isProcessing, autoSpeak, isSpeaking>>

VoiceNext ==
  \/ \E value \in Answers : setTranscript(value)
  \/ toggleAutoSpeak
  \/ VoiceHandleSubmitAnswer
  \/ \E r \in pending, score \in ScoreTenths : VoiceSubmitResolved(r, score)
  \/ \E r \in pending : VoiceSubmitNoSuccess(r)
  \/ \E r \in pending : VoiceSubmitRejected(r)
  \/ handleSkip
  \/ stopSpeaking
  \/ utteranceOnStart
  \/ utteranceOnEnd
  \/ utteranceOnError
  \/ \E cb \in cancelled : cancelledOnError(cb)
  \/ \E cb \in cancelled : cancelledOnEnd(cb)
  \/ \E t \in timers : nextQuestionTimer(t)

\* state after mount: empty arrays, and the mount effect reads the first question
InitVoice ==
  /\ variant = "voice"
  /\ nq \in 1..MaxQ
  /\ NoEditor /\ NoResults /\ NoChunks
  /\ currentIndex = 0
  /\ answers = <<>>
  /\ languages = <<>>
  /\ feedbacks = <<>>
  /\ loading = FALSE
  /\ pending = {}
  /\ requests = 0
  /\ bundle = NoBundle
  /\ completeCalls = 0
  /\ lastOp = "init"
  /\ lastToast = "none"
  /\ jumped = FALSE
  /\ overlapped = FALSE
  /\ transcript = <<>>
  /\ isProcessing = FALSE
  /\ autoSpeak = TRUE
  /\ isSpeaking = FALSE
  /\ synthUtt = [kind |-> "utterance", started |-> FALSE, cb |-> NoCb]
  /\ cancelled = {}
  /\ timers = {}
  /\ isRecording = FALSE
  /\ isRecordingRef = FALSE
  /\ isSpeakingRef = FALSE
  /\ currentTranscript = <<>>
  /\ recog = "idle"
  /\ synthQueue = <<>>
  /\ chains = <<>>
  /\ panelTimers = {}
  /\ inflight = {}
  /\ sent = <<>>
  /\ panelCancelled = {}
  /\ chatMessage = <<>>
  /\ chatTranscript = <<>>
  /\ isChatListening = FALSE
  /\ finalText = <<>>
  /\ sentSource = <<>>

SessionNext ==
  \/ \E value \in Answers : updateAnswer(value)
  \/ TextHandleSubmitAnswer
  \/ \E r \in pending, score \in ScoreTenths : TextSubmitResolved(r, score)
  \/ \E r \in pending : TextSubmitRejected(r)
  \/ \E code \in Answers, language \in Langs : CodingHandleSubmitAnswer(code, language)
  \/ \E r \in pending, score \in ScoreTenths : CodingSubmitResolved(r, score)
  \/ \E r \in pending : CodingSubmitRejected(r)
  \/ handleNext
  \/ handlePrevious
  \/ \E index \in 0..(MaxQ + 1) : jumpTo(index)

Init ==
  \/ \E v \in TextVariants \cup CodingVariants : InitSession(v)
  \/ InitVoice

Next == SessionNext \/ VoiceNext

Spec == Init /\ [][Next]_vars

\* ---------------------------------------------- recognition.onresult
\* a recognition event is the sequence event.results[event.resultIndex ..],
\* each result a transcript with its isFinal flag
RECURSIVE FinalTranscript(_)
FinalTranscript(ev) ==
  IF ev = <<>> THEN <<>>
  ELSE (IF Head(ev).isFinal THEN Head(ev).transcript \o <<" ">> ELSE <<>>)
       \o FinalTranscript(Tail(ev))

RECURSIVE InterimTranscript(_)
InterimTranscript(ev) ==
  IF ev = <<>> THEN <<>>
  ELSE (IF Head(ev).isFinal THEN <<>> ELSE Head(ev).transcript)
       \o InterimTranscript(Tail(ev))

\* the letters of a text, its white space left out
Letters(s) == SelectSeq(s, LAMBDA c : ~IsSpace(c))

\* what a recognition event finalizes is appended to what was heard before
Heard(ev) == finalText' = finalText \o Letters(FinalTranscript(ev))

\* the component clears its transcript
HeardReset == finalText' = <<>>

\* VoiceChatPanel: setCurrentTranscript(prev => (prev + ' ' + finalTranscript).trim())
PanelOnResult(prev, ev) ==
  IF FinalTranscript(ev) # <<>>
  THEN Trim(prev \o <<" ">> \o FinalTranscript(ev))
  ELSE prev

\* ------------------------------------------------------ VoiceChatPanel
MaxMsgs == 2        \* messages sent through the panel
MaxChunks == 2      \* chunks of one spoken reply
MaxTranscript == 1  \* characters of the transcript the panel accumulates
MaxHeard == MaxTranscript + 2   \* characters of the transcripts of the voice sessions
MaxFeedbacks == 3        \* feedbacks handed to the results page
MaxTextLen == 450        \* characters of a text handed to speakText
MaxElapsed == 2          \* seconds the ticker counts

Segments == {<<[transcript |-> <<"a">>, isFinal |-> TRUE]>>,
             <<[transcript |-> <<"b">>, isFinal |-> FALSE]>>}
RecognitionErrors == {"no-speech", "aborted", "network"}

PanelFlagsLow == isSpeaking' = FALSE /\ isSpeakingRef' = FALSE

\* synthRef.current.cancel(): every utterance leaves the engine, its event is pending
CancelledBy(queue) == {queue[k].chain : k \in DOMAIN queue}

\* the chains that lost an utterance to cancel() are marked
CutChains(ch, cs) ==
  [c \in DOMAIN ch |-> IF c \in cs THEN [ch[c] EXCEPT !.cut = TRUE] ELSE ch[c]]

\* sendMessage(userMessage) for a non-blank message
SendMessage(msg, source) ==
  /\ Len(sent) < MaxMsgs
  /\ sent' = Append(sent, msg)
  /\ sentSource' = Append(sentSource, source)
  /\ HeardReset
  /\ inflight' = inflight \cup {Len(sent) + 1}
  /\ currentTranscript' = <<>>
  /\ isProcessing' = TRUE

\* the mic button: disabled={isProcessing || isSpeaking}, start while not recording
startRecording(throws) ==
  /\ variant = "panel"
  /\ ~isRecording /\ ~isProcessing /\ ~isSpeaking
  /\ IF isSpeakingRef
     THEN /\ synthQueue' = <<>>
          /\ panelCancelled' = panelCancelled \cup CancelledBy(synthQueue)
          /\ chains' = CutChains(chains, CancelledBy(synthQueue))
          /\ PanelFlagsLow
     ELSE UNCHANGED <<synthQueue, panelCancelled, chains, isSpeaking, isSpeakingRef>>
  /\ currentTranscript' = <<>>
  /\ HeardReset
  /\ IF recog = "idle" /\ ~throws
     THEN /\ recog' = "running"
          /\ isRecording' = TRUE /\ isRecordingRef' = TRUE
          /\ lastToast' = "Recording Started"
     ELSE /\ isRecording' = FALSE /\ isRecordingRef' = FALSE
          /\ lastToast' = "none"
          /\ UNCHANGED recog
  /\ lastOp' = "startRecording"
  /\ UNCHANGED <<sessionOnlyVars, chatVars, sentSource, isProcessing, panelTimers, inflight, sent>>

\* stopRecording that leaves isRecordingRef set
stopRecordingKeepsRef ==
  /\ variant = "panel"
  /\ isRecording
  /\ (~isProcessing /\ ~isSpeaking) \/ currentTranscript # <<>>
  /\ isRecording' = FALSE
  /\ recog' = (IF recog = "running" THEN "stopping" ELSE recog)
  /\ IF Trim(currentTranscript) # <<>>
     THEN SendMessage(Trim(currentTranscript), finalText) /\ lastToast' = "none"
     ELSE /\ lastToast' = "No Speech Detected"
          /\ UNCHANGED <<sent, inflight, currentTranscript, isProcessing, heardVars,
                         sentSource>>
  /\ lastOp' = "stopRecording"
  /\ UNCHANGED <<sessionOnlyVars, chatVars, isRecordingRef, isSpeaking, isSpeakingRef, synthQueue,
                 chains, panelTimers, panelCancelled>>

\* the mic button while recording, or the Stop button next to the live transcript
stopRecording ==
  /\ variant = "panel"
  /\ isRecording
  /\ (~isProcessing /\ ~isSpeaking) \/ currentTranscript # <<>>
  /\ isRecordingRef' = FALSE
  /\ isRecording' = FALSE
  /\ recog' = (IF recog = "running" THEN "stopping" ELSE recog)
  /\ IF Trim(currentTranscript) # <<>>
     THEN SendMessage(Trim(currentTranscript), finalText) /\ lastToast' = "none"
     ELSE /\ lastToast' = "No Speech Detected"
          /\ UNCHANGED <<sent, inflight, currentTranscript, isProcessing, heardVars,
                         sentSource>>
  /\ lastOp' = "stopRecording"
  /\ UNCHANGED <<sessionOnlyVars, chatVars, isSpeaking, isSpeakingRef, synthQueue, chains,
                 panelTimers, panelCancelled>>

\* the Send button / Enter key: disabled={!textInput.trim() || isProcessing || isSpeaking || isRecording}
handleTextSend(textInput) ==
  /\ variant = "panel"
  /\ Trim(textInput) # <<>> /\ ~isProcessing /\ ~isSpeaking /\ ~isRecording
  /\ SendMessage(Trim(textInput), Letters(textInput))
  /\ lastOp' = "handleTextSend" /\ lastToast' = "none"
  /\ UNCHANGED <<sessionOnlyVars, chatVars, isRecording, isRecordingRef, isSpeaking, isSpeakingRef,
                 recog, synthQueue, chains, panelTimers, panelCancelled>>

\* timers of one delay fire in the order they were set: the 300 ms timers in
\* the order of the replies, and so the 100 ms timers they set
FirstOfKind(t) == \A u \in panelTimers : u.kind = t.kind => u.msg >= t.msg

\* the chat request settles (reply, fallback text or error text, n chunks long):
\* setTimeout(() => speakText(text), 300), then setIsProcessing(false)
chatResponse(id, n) ==
  /\ variant = "panel"
  /\ id \in inflight
  /\ inflight' = inflight \ {id}
  /\ panelTimers' = panelTimers \cup {[kind |-> "reply", msg |-> id, n |-> n]}
  /\ isProcessing' = FALSE
  /\ lastOp' = "chatResponse" /\ lastToast' = "none"
  /\ UNCHANGED <<sessionOnlyVars, chatVars, heardVars, sentSource, isRecording, isRecordingRef, isSpeaking, isSpeakingRef,
                 currentTranscript, recog, synthQueue, chains, sent, panelCancelled>>

\* speakText(text): cancel when isSpeakingRef, then setTimeout(..., 100)
speakTextTimer(t) ==
  /\ variant = "panel"
  /\ t \in panelTimers /\ t.kind = "reply"
  /\ FirstOfKind(t)
  /\ IF isSpeakingRef
     THEN /\ synthQueue' = <<>>
          /\ panelCancelled' = panelCancelled \cup CancelledBy(synthQueue)
          /\ chains' = CutChains(chains, CancelledBy(synthQueue))
     ELSE UNCHANGED <<synthQueue, panelCancelled, chains>>
  /\ panelTimers' = (panelTimers \ {t}) \cup {[kind |-> "start", msg |-> t.msg, n |-> t.n]}
  /\ lastOp' = "speakText" /\ lastToast' = "none"
  /\ UNCHANGED <<sessionOnlyVars, chatVars, heardVars, sentSource, isRecording, isRecordingRef, isSpeaking, isSpeakingRef,
                 isProcessing, currentTranscript, recog, inflight, sent>>

\* the 100 ms callback of speakText: chunks, currentChunk = 0, speakChunk()
startChainTimer(t) ==
  /\ variant = "panel"
  /\ t \in panelTimers /\ t.kind = "start"
  /\ FirstOfKind(t)
  /\ panelTimers' = panelTimers \ {t}
  /\ chains' = Append(chains, [n |-> t.n, currentChunk |-> 0, cut |-> FALSE])
  /\ synthQueue' = Append(synthQueue, [chain |-> Len(chains) + 1, chunk |-> 0,
                                        started |-> FALSE])
  /\ lastOp' = "speakChunk" /\ lastToast' = "none"
  /\ UNCHANGED <<sessionOnlyVars, chatVars, heardVars, sentSource, isRecording, isRecordingRef, isSpeaking, isSpeakingRef,
                 isProcessing, currentTranscript, recog, inflight, sent, panelCancelled>>

\* setTimeout(speakChunk, 100) between two chunks
speakChunkTimer(t) ==
  /\ variant = "panel"
  /\ t \in panelTimers /\ t.kind = "chunk"
  /\ panelTimers' = panelTimers \ {t}
  /\ IF chains[t.chain].currentChunk >= chains[t.chain].n
     THEN PanelFlagsLow /\ UNCHANGED synthQueue
     ELSE /\ synthQueue' = Append(synthQueue, [chain |-> t.chain,
                                                chunk |-> chains[t.chain].currentChunk,
                                                started |-> FALSE])
          /\ UNCHANGED <<isSpeaking, isSpeakingRef>>
  /\ lastOp' = "speakChunk" /\ lastToast' = "none"
  /\ UNCHANGED <<sessionOnlyVars, chatVars, heardVars, sentSource, isRecording, isRecordingRef, isProcessing,
                 currentTranscript, recog, chains, inflight, sent, panelCancelled>>

\* utterance.onstart of the head of the engine's queue
panelUtteranceStart ==
  /\ variant = "panel"
  /\ synthQueue # <<>> /\ ~Head(synthQueue).started
  /\ synthQueue' = [synthQueue EXCEPT ![1].started = TRUE]
  /\ isSpeaking' = TRUE /\ isSpeakingRef' = TRUE
  /\ lastOp' = "utteranceStart" /\ lastToast' = "none"
  /\ UNCHANGED <<sessionOnlyVars, chatVars, heardVars, sentSource, isRecording, isRecordingRef, isProcessing,
                 currentTranscript, recog, chains, panelTimers, inflight, sent,
                 panelCancelled>>

\* the closure of a speakText call whose last callback has run
ChainOver == [n |-> 0, currentChunk |-> 0, cut |-> FALSE]

\* onend / onerror that forget currentChunk++
ChunkDoneNoAdvance(c) ==
  /\ UNCHANGED <<chains, isSpeaking, isSpeakingRef>>
  /\ panelTimers' = panelTimers \cup {[kind |-> "chunk", chain |-> c]}

\* utterance.onend and utterance.onerror of a chunk of chain c do the same:
\* currentChunk++, then the next chunk after 100 ms or the flags go low
ChunkDone(c) ==
  IF chains[c].currentChunk + 1 < chains[c].n
  THEN /\ chains' = [chains EXCEPT ![c].currentChunk = @ + 1]
       /\ panelTimers' = panelTimers \cup {[kind |-> "chunk", chain |-> c]}
       /\ UNCHANGED <<isSpeaking, isSpeakingRef>>
  ELSE /\ chains' = [chains EXCEPT ![c] = ChainOver]
       /\ PanelFlagsLow
       /\ UNCHANGED panelTimers

\* the utterance being spoken ends (or the engine reports an error for it)
panelUtteranceDone ==
  /\ variant = "panel"
  /\ synthQueue # <<>> /\ Head(synthQueue).started
  /\ synthQueue' = Tail(synthQueue)
  /\ ChunkDone(Head(synthQueue).chain)
  /\ lastOp' = "utteranceEnd" /\ lastToast' = "none"
  /\ UNCHANGED <<sessionOnlyVars, chatVars, heardVars, sentSource, isRecording, isRecordingRef, isProcessing,
                 currentTranscript, recog, inflight, sent, panelCancelled>>

\* the end / error event of an utterance removed by cancel()
panelCancelledDone(c) ==
  /\ variant = "panel"
  /\ c \in panelCancelled
  /\ panelCancelled' = panelCancelled \ {c}
  /\ ChunkDone(c)
  /\ lastOp' = "cancelledEnd" /\ lastToast' = "none"
  /\ UNCHANGED <<sessionOnlyVars, chatVars, heardVars, sentSource, isRecording, isRecordingRef, isProcessing,
                 currentTranscript, recog, synthQueue, inflight, sent>>

\* recognition.onresult; a last result can still arrive after stop()
recognitionResult(ev) ==
  /\ variant = "panel"
  /\ recog \in {"running", "stopping"}
  /\ Len(PanelOnResult(currentTranscript, ev)) <= MaxTranscript
  /\ currentTranscript' = PanelOnResult(currentTranscript, ev)
  /\ Heard(ev)
  /\ lastOp' = "recognitionResult" /\ lastToast' = "none"
  /\ UNCHANGED <<sessionOnlyVars, chatVars, sentSource, isRecording, isRecordingRef, isSpeaking, isSpeakingRef,
                 isProcessing, recog, synthQueue, chains, panelTimers, inflight, sent,
                 panelCancelled>>

\* recognition.onerror; the recognizer then ends
recognitionError(error) ==
  /\ variant = "panel"
  /\ recog = "running"
  /\ recog' = "failed"
  /\ IF error # "no-speech" /\ error # "aborted"
     THEN /\ isRecording' = FALSE /\ isRecordingRef' = FALSE
          /\ lastToast' = "Speech Recognition Error"
     ELSE /\ UNCHANGED <<isRecording, isRecordingRef>>
          /\ lastToast' = "none"
  /\ lastOp' = "recognitionError"
  /\ UNCHANGED <<sessionOnlyVars, chatVars, heardVars, sentSource, isSpeaking, isSpeakingRef, isProcessing,
                 currentTranscript, synthQueue, chains, panelTimers, inflight, sent,
                 panelCancelled>>

\* recognition.onend: restart while isRecordingRef.current, else setIsRecording(false)
recognitionEnd(throws) ==
  /\ variant = "panel"
  /\ recog \in {"running", "stopping", "failed"}
  /\ IF isRecordingRef
     THEN IF throws
          THEN recog' = "idle" /\ isRecording' = FALSE /\ isRecordingRef' = FALSE
          ELSE recog' = "running" /\ UNCHANGED <<isRecording, isRecordingRef>>
     ELSE recog' = "idle" /\ isRecording' = FALSE /\ UNCHANGED isRecordingRef
  /\ lastOp' = (IF isRecordingRef /\ throws THEN "recognitionRestartFailed"
                ELSE "recognitionEnd")
  /\ lastToast' = "none"
  /\ UNCHANGED <<sessionOnlyVars, chatVars, heardVars, sentSource, isSpeaking, isSpeakingRef, isProcessing,
                 currentTranscript, synthQueue, chains, panelTimers, inflight, sent,
                 panelCancelled>>

PanelNext ==
  \/ \E throws \in BOOLEAN : startRecording(throws)
  \/ stopRecording
  \/ \E textInput \in Answers : handleTextSend(textInput)
  \/ \E id \in inflight, n \in 1..MaxChunks : chatResponse(id, n)
  \/ \E t \in panelTimers : speakTextTimer(t)
  \/ \E t \in panelTimers : startChainTimer(t)
  \/ \E t \in panelTimers : speakChunkTimer(t)
  \/ panelUtteranceStart
  \/ panelUtteranceDone
  \/ \E c \in panelCancelled : panelCancelledDone(c)
  \/ \E ev \in Segments : recognitionResult(ev)
  \/ \E error \in RecognitionErrors : recognitionError(error)
  \/ \E throws \in BOOLEAN : recognitionEnd(throws)

InitPanel ==
  /\ variant = "panel"
  /\ nq = 1
  /\ NoEditor /\ NoResults /\ NoChunks
  /\ currentIndex = 0
  /\ answers = <<>>
  /\ languages = <<>>
  /\ feedbacks = <<>>
  /\ loading = FALSE
  /\ pending = {}
  /\ requests = 0
  /\ bundle = NoBundle
  /\ completeCalls = 0
  /\ lastOp = "init"
  /\ lastToast = "none"
  /\ jumped = FALSE
  /\ overlapped = FALSE
  /\ transcript = <<>>
  /\ isProcessing = FALSE
  /\ autoSpeak = TRUE
  /\ isSpeaking = FALSE
  /\ synthUtt = NoUtt
  /\ cancelled = {}
  /\ timers = {}
  /\ isRecording = FALSE
  /\ isRecordingRef = FALSE
  /\ isSpeakingRef = FALSE
  /\ currentTranscript = <<>>
  /\ recog = "idle"
  /\ synthQueue = <<>>
  /\ chains = <<>>
  /\ panelTimers = {}
  /\ inflight = {}
  /\ sent = <<>>
  /\ panelCancelled = {}
  /\ chatMessage = <<>>
  /\ chatTranscript = <<>>
  /\ isChatListening = FALSE
  /\ finalText = <<>>
  /\ sentSource = <<>>

SpecPanel == InitPanel /\ [][PanelNext]_vars

\* ------------------------------------- VoiceInterviewSession: voice chat
\* chatRecognition.onresult: finals go to chatTranscript, an event without
\* finals appends its interim text to chatMessage
ChatTranscriptOnResult(prev, ev) ==
  IF FinalTranscript(ev) # <<>>
  THEN TrimEnd(prev) \o <<" ">> \o FinalTranscript(ev)
  ELSE prev

ChatMessageOnResult(prev, ev) ==
  IF FinalTranscript(ev) = <<>> /\ InterimTranscript(ev) # <<>>
  THEN prev \o InterimTranscript(ev)
  ELSE prev

\* the text handleChatSubmit() sends: chatMessage.trim() || chatTranscript.trim()
ChatOutgoing ==
  IF Trim(chatMessage) # <<>> THEN Trim(chatMessage) ELSE Trim(chatTranscript)

voiceOnlyVars == <<mountVars, currentIndex, answers, languages, feedbacks, loading,
                   pending, requests, bundle, completeCalls, jumped, overlapped,
                   transcript, autoSpeak, timers>>
panelOnlyVars == <<isRecording, isRecordingRef, isSpeakingRef, currentTranscript,
                   synthQueue, chains, panelTimers, panelCancelled>>

\* the mic button of the chat box, disabled={isProcessing}
toggleChatListening(throws) ==
  /\ variant \in VoiceVariants /\ VoiceMounted
  /\ ~isProcessing
  /\ IF isChatListening
     THEN /\ recog' = (IF recog = "running" THEN "stopping" ELSE recog)
          /\ isChatListening' = FALSE
          /\ chatMessage' = (IF Trim(chatTranscript) # <<>> THEN Trim(chatTranscript)
                             ELSE chatMessage)
          /\ lastToast' = "none"
          /\ UNCHANGED <<chatTranscript, heardVars, synthUtt, cancelled, isSpeaking>>
     ELSE /\ chatTranscript' = <<>> /\ chatMessage' = <<>>
          /\ HeardReset
          /\ LET e == SynthCancel(Synth) IN synthUtt' = e.utt /\ cancelled' = e.cancelled
          /\ isSpeaking' = FALSE
          /\ IF recog = "idle" /\ ~throws
             THEN recog' = "running" /\ isChatListening' = TRUE
                  /\ lastToast' = "Listening..."
             ELSE UNCHANGED <<recog, isChatListening>>
                  /\ lastToast' = "Could not start listening"
  /\ lastOp' = "toggleChatListening"
  /\ UNCHANGED <<voiceOnlyVars, panelOnlyVars, isProcessing, inflight, sent, sentSource>>

\* chatRecognition.onresult; a last result can still arrive after stop()
chatRecognitionResult(ev) ==
  /\ variant \in VoiceVariants /\ VoiceMounted
  /\ recog \in {"running", "stopping"}
  /\ Len(ChatTranscriptOnResult(chatTranscript, ev)) <= MaxHeard
  /\ Len(ChatMessageOnResult(chatMessage, ev)) <= MaxHeard
  /\ chatTranscript' = ChatTranscriptOnResult(chatTranscript, ev)
  /\ chatMessage' = ChatMessageOnResult(chatMessage, ev)
  /\ Heard(ev)
  /\ lastOp' = "chatRecognitionResult" /\ lastToast' = "none"
  /\ UNCHANGED <<voiceOnlyVars, panelOnlyVars, isProcessing, isSpeaking, synthUtt,
                 cancelled, recog, isChatListening, inflight, sent, sentSource>>

\* chatRecognition.onerror; the recognizer then ends
chatRecognitionError(error) ==
  /\ variant \in VoiceVariants /\ VoiceMounted
  /\ recog = "running"
  /\ recog' = "failed"
  /\ IF error # "no-speech"
     THEN isChatListening' = FALSE /\ lastToast' = "Speech Recognition Error"
     ELSE UNCHANGED isChatListening /\ lastToast' = "none"
  /\ lastOp' = "chatRecognitionError"
  /\ UNCHANGED <<voiceOnlyVars, panelOnlyVars, isProcessing, isSpeaking, synthUtt,
                 cancelled, chatMessage, chatTranscript, heardVars, inflight, sent,
                 sentSource>>

\* chatRecognition.onend: the handler belongs to the effect that ran when the
\* question was shown, and reads the isChatListening of that render, false
chatRecognitionEnd ==
  /\ variant \in VoiceVariants /\ VoiceMounted
  /\ recog \in {"running", "stopping", "failed"}
  /\ recog' = "idle"
  /\ isChatListening' = FALSE
  /\ lastOp' = "chatRecognitionEnd" /\ lastToast' = "none"
  /\ UNCHANGED <<voiceOnlyVars, panelOnlyVars, isProcessing, isSpeaking, synthUtt,
                 cancelled, chatMessage, chatTranscript, heardVars, inflight, sent,
                 sentSource>>

\* the Send button of the chat box, disabled={isProcessing || nothing to send},
\* and the Enter key of the chat input, disabled while listening
handleChatSubmit ==
  /\ variant \in VoiceVariants /\ VoiceMounted
  /\ ~isProcessing
  /\ ChatOutgoing = <<>> => ~isChatListening
  /\ IF ChatOutgoing = <<>>
     THEN /\ lastToast' = "Empty Message"
          /\ UNCHANGED <<recog, isChatListening, chatMessage, chatTranscript, heardVars,
                         isProcessing, inflight, sent, sentSource>>
     ELSE /\ Len(sent) < MaxMsgs
          /\ recog' = (IF isChatListening /\ recog = "running" THEN "stopping" ELSE recog)
          /\ isChatListening' = FALSE
          /\ sent' = Append(sent, ChatOutgoing)
          /\ sentSource' = Append(sentSource, finalText)
          /\ inflight' = inflight \cup {[id |-> Len(sent) + 1, autoSpeak |-> autoSpeak]}
          /\ chatMessage' = <<>> /\ chatTranscript' = <<>>
          /\ HeardReset
          /\ isProcessing' = TRUE
          /\ lastToast' = "none"
  /\ lastOp' = "handleChatSubmit"
  /\ UNCHANGED <<voiceOnlyVars, panelOnlyVars, isSpeaking, synthUtt, cancelled>>

\* the chat request returns a reply: speakText(data.reply), isProcessing off
chatReplyResolved(r) ==
  /\ variant \in VoiceVariants
  /\ r \in inflight
  /\ inflight' = inflight \ {r}
  /\ LET e == SpeakText(Synth, r.autoSpeak) IN synthUtt' = e.utt /\ cancelled' = e.cancelled
  /\ isProcessing' = (IF VoiceMounted THEN FALSE ELSE isProcessing)
  /\ lastOp' = "chatReplyResolved" /\ lastToast' = "none"
  /\ UNCHANGED <<voiceOnlyVars, panelOnlyVars, isSpeaking, recog, chatVars, heardVars,
                 sent, sentSource>>

\* the chat request fails or returns no reply: toast 'Chat Error', isProcessing off
chatReplyFailed(r) ==
  /\ variant \in VoiceVariants
  /\ r \in inflight
  /\ inflight' = inflight \ {r}
  /\ isProcessing' = (IF VoiceMounted THEN FALSE ELSE isProcessing)
  /\ lastOp' = "chatReplyFailed" /\ lastToast' = "Chat Error"
  /\ UNCHANGED <<voiceOnlyVars, panelOnlyVars, isSpeaking, synthUtt, cancelled, recog,
                 chatVars, heardVars, sent, sentSource>>

\* the voice session while its user talks to the chat box
ChatNext ==
  \/ \E throws \in BOOLEAN : toggleChatListening(throws)
  \/ \E ev \in Segments : chatRecognitionResult(ev)
  \/ \E error \in RecognitionErrors : chatRecognitionError(error)
  \/ chatRecognitionEnd
  \/ handleChatSubmit
  \/ \E r \in inflight : chatReplyResolved(r)
  \/ \E r \in inflight : chatReplyFailed(r)
  \/ toggleAutoSpeak
  \/ stopSpeaking
  \/ utteranceOnStart
  \/ utteranceOnEnd
  \/ utteranceOnError
  \/ \E cb \in cancelled : cancelledOnError(cb)
  \/ \E cb \in cancelled : cancelledOnEnd(cb)

\* ------------------------- VoiceInterviewSession, record-and-send variant
\* recognition.onresult: setTranscript(prev => prev + finalTranscript || interimTranscript)
V2OnResult(prev, ev) ==
  IF prev \o FinalTranscript(ev) # <<>>
  THEN prev \o FinalTranscript(ev)
  ELSE InterimTranscript(ev)

\* what no handler of this variant touches
v2Idle == <<mountVars, languages, loading, jumped, overlapped, autoSpeak,
            isRecordingRef, isSpeakingRef, currentTranscript, synthQueue, chains,
            panelTimers, inflight, panelCancelled, chatVars>>

\* stopSpeech(): cancel(), setIsSpeaking(false)
StopSpeech ==
  /\ LET e == SynthCancel(Synth) IN synthUtt' = e.utt /\ cancelled' = e.cancelled
  /\ isSpeaking' = FALSE

\* the mic button while idle, disabled={isProcessing || isSpeaking}
v2StartRecording(throws) ==
  /\ variant = "voice2" /\ VoiceMounted
  /\ ~isRecording /\ ~isProcessing /\ ~isSpeaking
  /\ StopSpeech
  /\ transcript' = <<>>
  /\ HeardReset
  /\ IF recog = "idle" /\ ~throws
     THEN recog' = "running" /\ isRecording' = TRUE /\ lastToast' = "Recording Started"
     ELSE UNCHANGED recog /\ isRecording' = FALSE /\ lastToast' = "none"
  /\ lastOp' = "v2StartRecording"
  /\ UNCHANGED <<v2Idle, currentIndex, answers, feedbacks, pending, requests, bundle,
                 completeCalls, isProcessing, timers, sent, sentSource>>

\* recognition.onresult; a last result can still arrive after stop()
v2RecognitionResult(ev) ==
  /\ variant = "voice2" /\ VoiceMounted
  /\ recog \in {"running", "stopping"}
  /\ Len(V2OnResult(transcript, ev)) <= MaxHeard
  /\ transcript' = V2OnResult(transcript, ev)
  /\ Heard(ev)
  /\ lastOp' = "v2RecognitionResult" /\ lastToast' = "none"
  /\ UNCHANGED <<v2Idle, currentIndex, answers, feedbacks, pending, requests, bundle,
                 completeCalls, isProcessing, isSpeaking, synthUtt, cancelled, timers,
                 isRecording, recog, sent, sentSource>>

\* recognition.onerror: setIsRecording(false), a toast unless 'no-speech'
v2RecognitionError(error) ==
  /\ variant = "voice2" /\ VoiceMounted
  /\ recog = "running"
  /\ recog' = "failed"
  /\ isRecording' = FALSE
  /\ lastToast' = (IF error # "no-speech" THEN "Recognition Error" ELSE "none")
  /\ lastOp' = "v2RecognitionError"
  /\ UNCHANGED <<v2Idle, currentIndex, answers, feedbacks, pending, requests, bundle,
                 completeCalls, transcript, heardVars, isProcessing, isSpeaking, synthUtt,
                 cancelled, timers, sent, sentSource>>

\* recognition.onend: the handler of the mount effect reads the isRecording of
\* the first render, false, and does not restart
v2RecognitionEnd ==
  /\ variant = "voice2"
  /\ recog \in {"running", "stopping", "failed"}
  /\ recog' = "idle"
  /\ lastOp' = "v2RecognitionEnd" /\ lastToast' = "none"
  /\ UNCHANGED <<v2Idle, currentIndex, answers, feedbacks, pending, requests, bundle,
                 completeCalls, transcript, heardVars, isProcessing, isSpeaking, synthUtt,
                 cancelled, timers, isRecording, sent, sentSource>>

\* the mic button while recording: stop, then submitAnswer(transcript.trim())
\* up to its request, or 'No Speech Detected'
v2StopRecording ==
  /\ variant = "voice2" /\ VoiceMounted
  /\ isRecording /\ ~isProcessing /\ ~isSpeaking
  /\ isRecording' = FALSE
  /\ recog' = (IF recog = "running" THEN "stopping" ELSE recog)
  /\ IF Trim(transcript) = <<>>
     THEN /\ lastToast' = "No Speech Detected"
          /\ UNCHANGED <<isProcessing, pending, requests, sent, sentSource>>
     ELSE /\ Len(sent) < MaxMsgs
          /\ isProcessing' = TRUE
          /\ pending' = pending \cup {[id |-> requests + 1, idx |-> currentIndex,
                                        answer |-> Trim(transcript),
                                        ansSnap |-> answers, fbSnap |-> feedbacks]}
          /\ requests' = requests + 1
          /\ sent' = Append(sent, Trim(transcript))
          /\ sentSource' = Append(sentSource, finalText)
          /\ lastToast' = "none"
  /\ lastOp' = "v2StopRecording"
  /\ UNCHANGED <<v2Idle, currentIndex, answers, feedbacks, bundle, completeCalls,
                 transcript, heardVars, isSpeaking, synthUtt, cancelled, timers>>

\* submitAnswer after a response with success: the arrays of its closure plus
\* the new entry, speakText(feedback), and the 3000 ms timer
v2SubmitResolved(r, score) ==
  /\ variant = "voice2"
  /\ r \in pending
  /\ pending' = pending \ {r}
  /\ IF Mounted
     THEN /\ answers' = Append(r.ansSnap, r.answer)
          /\ feedbacks' = Append(r.fbSnap, Feedback(score))
          /\ isProcessing' = FALSE
     ELSE UNCHANGED <<answers, feedbacks, isProcessing>>
  /\ LET e == SynthSpeak(Synth, NoCb) IN synthUtt' = e.utt /\ cancelled' = e.cancelled
  /\ timers' = timers \cup {[kind |-> "advance", id |-> r.id, idx |-> r.idx,
                             answers |-> Append(r.ansSnap, r.answer),
                             feedbacks |-> Append(r.fbSnap, Feedback(score))]}
  /\ lastOp' = "v2SubmitResolved" /\ lastToast' = "Answer Submitted"
  /\ UNCHANGED <<v2Idle, currentIndex, requests, bundle, completeCalls, transcript,
                 heardVars, isSpeaking, isRecording, recog, sent, sentSource>>

\* submitAnswer after a response without success or a rejected request
v2SubmitFailed(r) ==
  /\ variant = "voice2"
  /\ r \in pending
  /\ pending' = pending \ {r}
  /\ isProcessing' = (IF Mounted THEN FALSE ELSE isProcessing)
  /\ lastOp' = "v2SubmitFailed" /\ lastToast' = "Submission Error"
  /\ UNCHANGED <<v2Idle, currentIndex, answers, feedbacks, requests, bundle,
                 completeCalls, transcript, heardVars, isSpeaking, synthUtt, cancelled,
                 timers, isRecording, recog, sent, sentSource>>

\* the 3000 ms timer: completeInterview on the last question of its closure,
\* else moveToNextQuestion
v2AdvanceTimer(t) ==
  /\ variant = "voice2"
  /\ t \in timers /\ t.kind = "advance"
  /\ StopSpeech
  /\ IF t.idx = nq - 1
     THEN /\ bundle' = VoiceBundle(t.answers, t.feedbacks)
          /\ completeCalls' = completeCalls + 1
          /\ timers' = timers \ {t}
          /\ UNCHANGED <<currentIndex, transcript, heardVars>>
     ELSE /\ IF Mounted
             THEN currentIndex' = currentIndex + 1 /\ transcript' = <<>> /\ HeardReset
             ELSE UNCHANGED <<currentIndex, transcript, heardVars>>
          /\ timers' = (timers \ {t}) \cup {[kind |-> "speak", id |-> t.id, idx |-> t.idx + 1]}
          /\ UNCHANGED <<bundle, completeCalls>>
  /\ lastOp' = "v2AdvanceTimer" /\ lastToast' = "none"
  /\ UNCHANGED <<v2Idle, answers, feedbacks, pending, requests, isProcessing,
                 isRecording, recog, sent, sentSource>>

\* the 500 ms timer of moveToNextQuestion: speakText of the question after the
\* one of its closure
v2SpeakTimer(t) ==
  /\ variant = "voice2"
  /\ t \in timers /\ t.kind = "speak"
  /\ timers' = timers \ {t}
  /\ LET e == IF t.idx < nq THEN SynthSpeak(Synth, NoCb) ELSE Synth
     IN  synthUtt' = e.utt /\ cancelled' = e.cancelled
  /\ lastOp' = "v2SpeakTimer" /\ lastToast' = "none"
  /\ UNCHANGED <<v2Idle, currentIndex, answers, feedbacks, pending, requests, bundle,
                 completeCalls, transcript, heardVars, isProcessing, isSpeaking,
                 isRecording, recog, sent, sentSource>>

\* utterance.onstart
v2UtteranceStart ==
  /\ variant = "voice2"
  /\ synthUtt # NoUtt /\ ~synthUtt.started
  /\ synthUtt' = [synthUtt EXCEPT !.started = TRUE]
  /\ isSpeaking' = TRUE
  /\ lastOp' = "v2UtteranceStart" /\ lastToast' = "none"
  /\ UNCHANGED <<v2Idle, currentIndex, answers, feedbacks, pending, requests, bundle,
                 completeCalls, transcript, heardVars, isProcessing, cancelled, timers,
                 isRecording, recog, sent, sentSource>>

\* utterance.onend / utterance.onerror of the utterance the engine holds
v2UtteranceDone ==
  /\ variant = "voice2"
  /\ synthUtt # NoUtt
  /\ synthUtt' = NoUtt
  /\ isSpeaking' = FALSE
  /\ lastOp' = "v2UtteranceDone" /\ lastToast' = "none"
  /\ UNCHANGED <<v2Idle, currentIndex, answers, feedbacks, pending, requests, bundle,
                 completeCalls, transcript, heardVars, isProcessing, cancelled, timers,
                 isRecording, recog, sent, sentSource>>

\* the end / error event of an utterance removed by cancel()
v2CancelledDone(cb) ==
  /\ variant = "voice2"
  /\ cb \in cancelled
  /\ cancelled' = cancelled \ {cb}
  /\ isSpeaking' = FALSE
  /\ lastOp' = "v2CancelledDone" /\ lastToast' = "none"
  /\ UNCHANGED <<v2Idle, currentIndex, answers, feedbacks, pending, requests, bundle,
                 completeCalls, transcript, heardVars, isProcessing, synthUtt, timers,
                 isRecording, recog, sent, sentSource>>

Voice2Next ==
  \/ \E throws \in BOOLEAN : v2StartRecording(throws)
  \/ \E ev \in Segments : v2RecognitionResult(ev)
  \/ \E error \in RecognitionErrors : v2RecognitionError(error)
  \/ v2RecognitionEnd
  \/ v2StopRecording
  \/ \E r \in pending, score \in ScoreTenths : v2SubmitResolved(r, score)
  \/ \E r \in pending : v2SubmitFailed(r)
  \/ \E t \in timers : v2AdvanceTimer(t)
  \/ \E t \in timers : v2SpeakTimer(t)
  \/ v2UtteranceStart
  \/ v2UtteranceDone
  \/ \E cb \in cancelled : v2CancelledDone(cb)

\* state after mount: empty arrays, and the mount effect reads the first question
InitVoice2 ==
  /\ variant = "voice2"
  /\ nq \in 1..MaxQ
  /\ NoEditor /\ NoResults /\ NoChunks
  /\ currentIndex = 0
  /\ answers = <<>>
  /\ languages = <<>>
  /\ feedbacks = <<>>
  /\ loading = FALSE
  /\ pending = {}
  /\ requests = 0
  /\ bundle = NoBundle
  /\ completeCalls = 0
  /\ lastOp = "init"
  /\ lastToast = "none"
  /\ jumped = FALSE
  /\ overlapped = FALSE
  /\ transcript = <<>>
  /\ isProcessing = FALSE
  /\ autoSpeak = TRUE
  /\ isSpeaking = FALSE
  /\ synthUtt = [kind |-> "utterance", started |-> FALSE, cb |-> NoCb]
  /\ cancelled = {}
  /\ timers = {}
  /\ isRecording = FALSE
  /\ isRecordingRef = FALSE
  /\ isSpeakingRef = FALSE
  /\ currentTranscript = <<>>
  /\ recog = "idle"
  /\ synthQueue = <<>>
  /\ chains = <<>>
  /\ panelTimers = {}
  /\ inflight = {}
  /\ sent = <<>>
  /\ panelCancelled = {}
  /\ chatMessage = <<>>
  /\ chatTranscript = <<>>
  /\ isChatListening = FALSE
  /\ finalText = <<>>
  /\ sentSource = <<>>

\* ------------------------------------------- the three speech listeners
InitRecog == InitPanel \/ InitVoice \/ InitVoice2
RecogNext == PanelNext \/ ChatNext \/ Voice2Next
SpecRecog == InitRecog /\ [][RecogNext]_vars

\* ------------------------------------------------------------ CodeEditor
\* "editor" is the CodeEditor with handleLanguageChange (CodeEditor.tsx:28-364),
\* "editor2" the CodeEditor with the useEffect on language (CodeEditor.tsx:403-562
\* and part_005)
EditorVariants == {"editor", "editor2"}
EditorLanguages == {"python", "java", "javascript"}

\* the starter templates: distinct, non-blank texts
codeTemplates ==
  [python |-> <<"#", "p">>, java |-> <<"/", "j">>, javascript |-> <<"/", "s">>]

\* what the textarea can hold after an edit
Buffers == {<<>>, <<" ">>, <<"x">>} \cup {codeTemplates[l] : l \in EditorLanguages}

\* what POST /api/compiler/execute answers
RunResults ==
  {[success |-> TRUE, status |-> "Accepted"], [success |-> FALSE, status |-> "Runtime Error"]}

editorIdle == <<variant, nq, timerVars, resultsVars, chunkVars, currentIndex, answers, languages, feedbacks, loading,
                pending, requests, bundle, completeCalls, lastToast, jumped, overlapped,
                voiceVars, panelVars>>

\* "Initialize with template if empty": if (!code) setCode(codeTemplates[language])
\* runs in the render of "editor"
Rendered(c, l) == IF variant = "editor" /\ c = <<>> THEN codeTemplates[l] ELSE c

\* the textarea's onChange; "editor" disables the textarea while executing
setCode(text) ==
  /\ variant \in EditorVariants
  /\ variant = "editor" => ~executing
  /\ editorCode' = Rendered(text, editorLanguage)
  /\ lastOp' = "setCode"
  /\ UNCHANGED <<editorIdle, editorLanguage, output, executing, runs>>

\* "editor": the language select's onValueChange
handleLanguageChange(newLanguage) ==
  /\ variant = "editor"
  /\ newLanguage # editorLanguage
  /\ editorLanguage' = newLanguage
  /\ output' = Null
  /\ editorCode' = IF editorCode = <<>> \/ editorCode = codeTemplates[editorLanguage]
                   THEN codeTemplates[newLanguage] ELSE editorCode
  /\ lastOp' = "languageChange"
  /\ UNCHANGED <<editorIdle, executing, runs>>

\* "editor2": onValueChange={setLanguage}, then the effect on [language]
setLanguage(newLanguage) ==
  /\ variant = "editor2"
  /\ newLanguage # editorLanguage
  /\ editorLanguage' = newLanguage
  /\ editorCode' = codeTemplates[newLanguage]
  /\ output' = Null
  /\ lastOp' = "languageChange"
  /\ UNCHANGED <<editorIdle, executing, runs>>

\* the Run button: disabled={executing || !code.trim()} in "editor",
\* disabled={executing} in "editor2"
RunEnabled ==
  IF variant = "editor" THEN ~executing /\ Trim(editorCode) # <<>> ELSE ~executing

\* handleRunCode up to the await of fetch
handleRunCode ==
  /\ variant \in EditorVariants
  /\ RunEnabled
  /\ executing' = TRUE
  /\ output' = Null
  /\ runs' = Append(runs, [sourceCode |-> editorCode, language |-> editorLanguage, phase |-> "fetch"])
  /\ lastOp' = "run"
  /\ UNCHANGED <<editorIdle, editorCode, editorLanguage>>

RemoveAt(q, k) == SubSeq(q, 1, k - 1) \o SubSeq(q, k + 1, Len(q))

\* a catch block that does not look at the error's name
CatchOutputGeneric(name) ==
  [success |-> FALSE, status |-> "Error"]

\* the catch block: the result it shows for an error of that name
CatchOutput(name) ==
  [success |-> FALSE, status |-> IF name = "AbortError" THEN "Timeout" ELSE "Error"]

\* fetch resolves with a response: clearTimeout(timeoutId), then await response.json()
fetchResolved(k) ==
  /\ variant \in EditorVariants
  /\ k \in DOMAIN runs /\ runs[k].phase = "fetch"
  /\ runs' = [runs EXCEPT ![k].phase = "body"]
  /\ lastOp' = "fetchResolved"
  /\ UNCHANGED <<editorIdle, editorCode, editorLanguage, output, executing>>

\* response.json() resolves: setOutput(result), finally setExecuting(false)
bodyParsed(k, result) ==
  /\ variant \in EditorVariants
  /\ k \in DOMAIN runs /\ runs[k].phase = "body"
  /\ runs' = RemoveAt(runs, k)
  /\ output' = result
  /\ executing' = FALSE
  /\ lastOp' = "runResult"
  /\ UNCHANGED <<editorIdle, editorCode, editorLanguage>>

\* fetch rejects (TypeError) or response.json() rejects (SyntaxError): the catch
\* block, then finally setExecuting(false)
runFailed(k, name) ==
  /\ variant \in EditorVariants
  /\ k \in DOMAIN runs
  /\ runs' = RemoveAt(runs, k)
  /\ output' = CatchOutput(name)
  /\ executing' = FALSE
  /\ lastOp' = "runFailed"
  /\ UNCHANGED <<editorIdle, editorCode, editorLanguage>>

\* the 20 s timer fires while fetch is pending: controller.abort() rejects fetch
\* with an AbortError, the catch block, then finally setExecuting(false)
runTimeout(k) ==
  /\ variant \in EditorVariants
  /\ k \in DOMAIN runs /\ runs[k].phase = "fetch"
  /\ runs' = RemoveAt(runs, k)
  /\ output' = CatchOutput("AbortError")
  /\ executing' = FALSE
  /\ lastOp' = "runTimeout"
  /\ UNCHANGED <<editorIdle, editorCode, editorLanguage>>

EditorNext ==
  \/ \E text \in Buffers : setCode(text)
  \/ \E newLanguage \in EditorLanguages : handleLanguageChange(newLanguage)
  \/ \E newLanguage \in EditorLanguages : setLanguage(newLanguage)
  \/ handleRunCode
  \/ \E k \in DOMAIN runs : fetchResolved(k)
  \/ \E k \in DOMAIN runs, result \in RunResults : bodyParsed(k, result)
  \/ \E k \in DOMAIN runs, name \in {"TypeError", "SyntaxError"} : runFailed(k, name)
  \/ \E k \in DOMAIN runs : runTimeout(k)

InitEditor ==
  /\ variant \in EditorVariants
  /\ nq = 1
  /\ editorCode = codeTemplates["python"]
  /\ editorLanguage = "python"
  /\ output = Null
  /\ executing = FALSE
  /\ runs = <<>>
  /\ NoResults /\ NoChunks
  /\ currentIndex = 0
  /\ answers = <<>>
  /\ languages = <<>>
  /\ feedbacks = <<>>
  /\ loading = FALSE
  /\ pending = {}
  /\ requests = 0
  /\ bundle = NoBundle
  /\ completeCalls = 0
  /\ lastOp = "init"
  /\ lastToast = "none"
  /\ jumped = FALSE
  /\ overlapped = FALSE
  /\ transcript = <<>>
  /\ isProcessing = FALSE
  /\ autoSpeak = TRUE
  /\ isSpeaking = FALSE
  /\ synthUtt = NoUtt
  /\ cancelled = {}
  /\ timers = {}
  /\ isRecording = FALSE
  /\ isRecordingRef = FALSE
  /\ isSpeakingRef = FALSE
  /\ currentTranscript = <<>>
  /\ recog = "idle"
  /\ synthQueue = <<>>
  /\ chains = <<>>
  /\ panelTimers = {}
  /\ inflight = {}
  /\ sent = <<>>
  /\ panelCancelled = {}
  /\ chatMessage = <<>>
  /\ chatTranscript = <<>>
  /\ isChatListening = FALSE
  /\ finalText = <<>>
  /\ sentSource = <<>>

SpecEditor == InitEditor /\ [][EditorNext]_vars

\* ----------------------------------------------------------- ResultsPage
\* scores the feedbacks of a finished interview carry, in tenths
ResultScores == {550, 595, 600, 690, 700, 795, 900}

RECURSIVE SumScores(_)
\* feedbacks.reduce((acc, f) => acc + f.score, 0), in tenths
SumScores(fs) == IF fs = <<>> THEN 0 ELSE Head(fs).score + SumScores(Tail(fs))

\* Math.floor in place of Math.round
overallScoreFloor(fs) == SumScores(fs) \div (10 * Len(fs))

\* Math.round(sum / feedbacks.length), for at least one feedback: the sum is in
\* tenths, so the quotient is sum / (10 * length), rounded half up
overallScore(fs) == (2 * SumScores(fs) + 10 * Len(fs)) \div (20 * Len(fs))

getScoreLabel(score) ==
  IF score >= 90 THEN "Excellent!"
  ELSE IF score >= 80 THEN "Great Job!"
  ELSE IF score >= 70 THEN "Good Work"
  ELSE IF score >= 60 THEN "Keep Practicing"
  ELSE "Needs Improvement"

resultsIdle == <<variant, nq, timerVars, editorVars, chunkVars, currentIndex, answers, languages,
                 feedbacks, loading, pending, requests, bundle, completeCalls, lastToast,
                 jumped, overlapped, voiceVars, panelVars>>

\* the render of the page: the score card shows overallScore and its label
ResultsRender ==
  /\ variant = "results"
  /\ overallShown = {}
  /\ overallShown' = {overallScore(feedbacks)}
  /\ labelShown' = {getScoreLabel(overallScore(feedbacks))}
  /\ lastOp' = "render"
  /\ UNCHANGED <<resultsIdle, expandedIndex>>

\* the header button of a feedback card, and the render that follows
toggleExpanded(index) ==
  /\ variant = "results"
  /\ overallShown # {}
  /\ index \in 0..(nq - 1)
  /\ expandedIndex' = IF expandedIndex = {index} THEN {} ELSE {index}
  /\ overallShown' = {overallScore(feedbacks)}
  /\ labelShown' = {getScoreLabel(overallScore(feedbacks))}
  /\ lastOp' = "toggleExpanded"
  /\ UNCHANGED resultsIdle

ResultsNext ==
  \/ ResultsRender
  \/ \E index \in 0..(MaxFeedbacks - 1) : toggleExpanded(index)

InitResults ==
  /\ variant = "results"
  /\ nq \in 1..MaxFeedbacks
  /\ feedbacks \in [1..nq -> {Feedback(sc) : sc \in ResultScores}]
  /\ NoEditor /\ NoResults /\ NoChunks
  /\ currentIndex = 0
  /\ answers = <<>>
  /\ languages = <<>>
  /\ loading = FALSE
  /\ pending = {}
  /\ requests = 0
  /\ bundle = NoBundle
  /\ completeCalls = 0
  /\ lastOp = "init"
  /\ lastToast = "none"
  /\ jumped = FALSE
  /\ overlapped = FALSE
  /\ transcript = <<>>
  /\ isProcessing = FALSE
  /\ autoSpeak = TRUE
  /\ isSpeaking = FALSE
  /\ synthUtt = NoUtt
  /\ cancelled = {}
  /\ timers = {}
  /\ isRecording = FALSE
  /\ isRecordingRef = FALSE
  /\ isSpeakingRef = FALSE
  /\ currentTranscript = <<>>
  /\ recog = "idle"
  /\ synthQueue = <<>>
  /\ chains = <<>>
  /\ panelTimers = {}
  /\ inflight = {}
  /\ sent = <<>>
  /\ panelCancelled = {}
  /\ chatMessage = <<>>
  /\ chatTranscript = <<>>
  /\ isChatListening = FALSE
  /\ finalText = <<>>
  /\ sentSource = <<>>

SpecResults == InitResults /\ [][ResultsNext]_vars

\* ------------------------------------------------- speakText: chunking
\* const maxLength = 200
maxLength == 200

\* "." of a regular expression without the s flag matches no line terminator
IsLineTerminator(c) == c \in {"\n", "\r"}

\* the longest match of .{1,maxLength} at the start of s (0: no match there)
RunLength(s) ==
  LET stops == {k \in 1..Len(s) : IsLineTerminator(s[k])} \cup {Len(s) + 1, maxLength + 1}
  IN  (CHOOSE k \in stops : \A j \in stops : k <= j) - 1

RECURSIVE MatchAll(_)
\* text.match(new RegExp(`.{1,${maxLength}}`, 'g')): the matches from left to
\* right, the scan moving one character on where nothing matches
MatchAll(s) ==
  IF s = <<>> THEN <<>>
  ELSE IF RunLength(s) = 0 THEN MatchAll(Tail(s))
  ELSE <<SubSeq(s, 1, RunLength(s))>> \o MatchAll(SubSeq(s, RunLength(s) + 1, Len(s)))

\* chunks = text.match(...) || [text]: match gives null when nothing matches
Chunks(text) == IF MatchAll(text) = <<>> THEN <<text>> ELSE MatchAll(text)

\* a text of len characters, the one at position nl a line break (0: none)
Text(len, nl) == [k \in 1..len |-> IF k = nl THEN "\n" ELSE "a"]
Texts == {Text(len, nl) : len \in 0..MaxTextLen, nl \in {0, 1, maxLength, maxLength + 1}}

chunkIdle == <<variant, nq, timerVars, editorVars, resultsVars, currentIndex, answers, languages,
               feedbacks, loading, pending, requests, bundle, completeCalls, lastToast,
               jumped, overlapped, voiceVars, panelVars>>

\* the 100 ms callback of speakText(text) up to the first speakChunk()
chunkText ==
  /\ variant = "chunks"
  /\ speechChunks = <<>>
  /\ speechChunks' = Chunks(speechText)
  /\ lastOp' = "chunkText"
  /\ UNCHANGED <<chunkIdle, speechText>>

\* the chain is over: the next speakText(text)
nextText(text) ==
  /\ variant = "chunks"
  /\ speechChunks # <<>>
  /\ speechText' = text
  /\ speechChunks' = <<>>
  /\ lastOp' = "speakText"
  /\ UNCHANGED chunkIdle

ChunksNext ==
  \/ chunkText
  \/ \E text \in Texts : nextText(text)

InitChunks ==
  /\ variant = "chunks"
  /\ nq = 1
  /\ speechText \in Texts
  /\ speechChunks = <<>>
  /\ NoEditor /\ NoResults /\ NoTimers
  /\ currentIndex = 0
  /\ answers = <<>>
  /\ languages = <<>>
  /\ feedbacks = <<>>
  /\ loading = FALSE
  /\ pending = {}
  /\ requests = 0
  /\ bundle = NoBundle
  /\ completeCalls = 0
  /\ lastOp = "init"
  /\ lastToast = "none"
  /\ jumped = FALSE
  /\ overlapped = FALSE
  /\ transcript = <<>>
  /\ isProcessing = FALSE
  /\ autoSpeak = TRUE
  /\ isSpeaking = FALSE
  /\ synthUtt = NoUtt
  /\ cancelled = {}
  /\ timers = {}
  /\ isRecording = FALSE
  /\ isRecordingRef = FALSE
  /\ isSpeakingRef = FALSE
  /\ currentTranscript = <<>>
  /\ recog = "idle"
  /\ synthQueue = <<>>
  /\ chains = <<>>
  /\ panelTimers = {}
  /\ inflight = {}
  /\ sent = <<>>
  /\ panelCancelled = {}
  /\ chatMessage = <<>>
  /\ chatTranscript = <<>>
  /\ isChatListening = FALSE
  /\ finalText = <<>>
  /\ sentSource = <<>>

SpecChunks == InitChunks /\ [][ChunksNext]_vars

\* ------------------------------- elapsed-time ticker and auto-save flag
\* "textTimed" is InterviewSession, "codingTimed" CodingInterviewSession, each
\* looked at for its two timer effects
TimedVariants == {"textTimed", "codingTimed"}

timedIdle == <<variant, nq, editorVars, resultsVars, chunkVars, languages, feedbacks,
               loading, pending, requests, bundle, completeCalls, lastToast, jumped,
               overlapped, voiceVars, panelVars>>

\* the effect on [currentAnswer], run when the render after a handler shows
\* another currentAnswer than the one before: the cleanup clears the pending
\* timeout, then if (currentAnswer) { setAutoSaved(false); setTimeout(...) }
AutoSaveEffect(before, after) ==
  IF after = before
  THEN UNCHANGED <<autoSaved, saveTimer>>
  ELSE IF after # <<>>
       THEN autoSaved' = FALSE /\ saveTimer' = TRUE
       ELSE saveTimer' = FALSE /\ UNCHANGED autoSaved

\* an effect that leaves autoSaved alone
AutoSaveEffectNoReset(before, after) ==
  IF after = before
  THEN UNCHANGED <<autoSaved, saveTimer>>
  ELSE saveTimer' = (after # <<>>) /\ UNCHANGED autoSaved

\* InterviewSession: the textarea's onChange, updateAnswer(value)
typeAnswer(value) ==
  /\ variant = "textTimed" /\ ~torn
  /\ answers' = ArraySet(answers, currentIndex, value)
  /\ AutoSaveEffect(currentAnswer, value)
  /\ lastOp' = "updateAnswer"
  /\ UNCHANGED <<timedIdle, currentIndex, elapsedTime, ticker, torn>>

\* CodingInterviewSession: a submit response stores the code as the answer
answerStored(code) ==
  /\ variant = "codingTimed" /\ ~torn
  /\ Trim(code) # <<>>
  /\ answers' = ArraySet(answers, currentIndex, code)
  /\ AutoSaveEffect(currentAnswer, code)
  /\ lastOp' = "submitResolved"
  /\ UNCHANGED <<timedIdle, currentIndex, elapsedTime, ticker, torn>>

\* another question is shown: previous / navigator in InterviewSession, next in
\* CodingInterviewSession once the question has its answer stored
showQuestion(index) ==
  /\ variant \in TimedVariants /\ ~torn
  /\ index \in 0..(nq - 1) /\ index # currentIndex
  /\ variant = "codingTimed" => (index = currentIndex + 1 /\ currentAnswer # <<>>)
  /\ currentIndex' = index
  /\ AutoSaveEffect(currentAnswer, ArrayGet(answers, index))
  /\ lastOp' = "showQuestion"
  /\ UNCHANGED <<timedIdle, answers, elapsedTime, ticker, torn>>

\* the setInterval callback: setElapsedTime(prev => prev + 1)
tick ==
  /\ variant \in TimedVariants
  /\ ticker
  /\ elapsedTime < MaxElapsed
  /\ elapsedTime' = elapsedTime + 1
  /\ lastOp' = "tick"
  /\ UNCHANGED <<timedIdle, currentIndex, answers, autoSaved, ticker, saveTimer, torn>>

\* the setTimeout callback: setAutoSaved(true)
autoSaveFired ==
  /\ variant \in TimedVariants
  /\ saveTimer
  /\ saveTimer' = FALSE
  /\ autoSaved' = TRUE
  /\ lastOp' = "autoSaveFired"
  /\ UNCHANGED <<timedIdle, currentIndex, answers, elapsedTime, ticker, torn>>

\* an unmount that runs no cleanup
teardownLeaky ==
  /\ variant \in TimedVariants /\ ~torn
  /\ torn' = TRUE
  /\ lastOp' = "teardown"
  /\ UNCHANGED <<timedIdle, currentIndex, answers, elapsedTime, autoSaved, ticker, saveTimer>>

\* onExit (or onComplete): the parent unmounts the component and the cleanups
\* of both effects run, clearInterval(timer) and clearTimeout(timeout)
teardown ==
  /\ variant \in TimedVariants /\ ~torn
  /\ torn' = TRUE
  /\ ticker' = FALSE
  /\ saveTimer' = FALSE
  /\ lastOp' = "teardown"
  /\ UNCHANGED <<timedIdle, currentIndex, answers, elapsedTime, autoSaved>>

TimedNext ==
  \/ \E value \in Answers : typeAnswer(value)
  \/ \E code \in Answers : answerStored(code)
  \/ \E index \in 0..(MaxQ - 1) : showQuestion(index)
  \/ tick
  \/ autoSaveFired
  \/ teardown

\* after mount: the interval runs, currentAnswer is '' and no timeout is set
InitTimed ==
  /\ variant \in TimedVariants
  /\ nq \in 1..MaxQ
  /\ currentIndex = 0
  /\ answers = ArrayFill(nq, <<>>)
  /\ elapsedTime = 0
  /\ autoSaved = FALSE
  /\ ticker = TRUE
  /\ saveTimer = FALSE
  /\ torn = FALSE
  /\ NoEditor /\ NoResults /\ speechText = <<>> /\ speechChunks = <<>>
  /\ languages = <<>>
  /\ feedbacks = <<>>
  /\ loading = FALSE
  /\ pending = {}
  /\ requests = 0
  /\ bundle = NoBundle
  /\ completeCalls = 0
  /\ lastOp = "init"
  /\ lastToast = "none"
  /\ jumped = FALSE
  /\ overlapped = FALSE
  /\ transcript = <<>>
  /\ isProcessing = FALSE
  /\ autoSpeak = TRUE
  /\ isSpeaking = FALSE
  /\ synthUtt = NoUtt
  /\ cancelled = {}
  /\ timers = {}
  /\ isRecording = FALSE
  /\ isRecordingRef = FALSE
  /\ isSpeakingRef = FALSE
  /\ currentTranscript = <<>>
  /\ recog = "idle"
  /\ synthQueue = <<>>
  /\ chains = <<>>
  /\ panelTimers = {}
  /\ inflight = {}
  /\ sent = <<>>
  /\ panelCancelled = {}
  /\ chatMessage = <<>>
  /\ chatTranscript = <<>>
  /\ isChatListening = FALSE
  /\ finalText = <<>>
  /\ sentSource = <<>>

SpecTimed == InitTimed /\ [][TimedNext]_vars

\* ======================================================== session claims
InRange(f) == 0 <= f.score /\ f.score <= 1000      \* 0 <= score <= 100, in tenths

\* C1: in the text and coding sessions, when every question was submitted
\* successfully and left with next, in order (no previous / navigator, one submit
\* in flight at a time), onComplete receives exactly questions.length feedbacks,
\* each with 0 <= score <= 100.
C1_FullRunBundle ==
  (variant \in TextVariants \cup CodingVariants /\ bundle # NoBundle
     /\ ~jumped /\ ~overlapped)
  => /\ Len(bundle.feedbacks) = nq
     /\ \A k \in DOMAIN bundle.feedbacks : InRange(bundle.feedbacks[k])

C1_Witness ==
  /\ variant \in TextVariants \cup CodingVariants
  /\ bundle # NoBundle /\ ~jumped /\ ~overlapped
  /\ nq = MaxQ /\ requests = nq

\* C2: a submit whose answer is empty or whitespace-only issues no request and
\* leaves answers, languages, feedbacks, the transcript and the current index
\* unchanged; no request in flight ever carries a blank answer.
C2_BlankSubmitStep ==
  lastOp' = "submitBlank"
  => /\ requests' = requests /\ pending' = pending
     /\ answers' = answers /\ languages' = languages /\ feedbacks' = feedbacks
     /\ transcript' = transcript /\ currentIndex' = currentIndex

C2_BlankSubmit ==
  /\ [](\A r \in pending : Trim(r.input) # <<>>)
  /\ [][C2_BlankSubmitStep]_vars

C2_Witness == lastOp = "submitBlank" /\ lastToast = "Code required"

\* C3: when a submit fails (the request rejects or the response reports no
\* success) feedbacks, the current index and the answer text are unchanged and an
\* error notification is shown.
C3_FailedSubmitStep ==
  lastOp' = "submitFailed"
  => /\ feedbacks' = feedbacks /\ currentIndex' = currentIndex
     /\ answers' = answers /\ transcript' = transcript
     /\ lastToast' # "none"

C3_FailedSubmit == [][C3_FailedSubmitStep]_vars

\* C4: in the text and coding sessions the answers and feedbacks arrays have
\* exactly questions.length entries and 0 <= currentIndex < questions.length.
C4_ShapeInvariant ==
  variant \in TextVariants \cup CodingVariants
  => /\ Len(answers) = nq /\ Len(feedbacks) = nq
     /\ 0 <= currentIndex /\ currentIndex < nq

C4_Witness ==
  /\ variant \in NavVariants /\ jumped /\ nq = MaxQ
  /\ requests = nq /\ pending = {} /\ currentIndex = nq - 1
  /\ \A k \in DOMAIN feedbacks : feedbacks[k] # Null

\* C5: in the text and coding sessions, once the feedback of a question is
\* non-null it never becomes null again.
C5_FeedbackKeptStep ==
  variant \in TextVariants \cup CodingVariants
  => \A k \in DOMAIN feedbacks :
       feedbacks[k] # Null => (k \in DOMAIN feedbacks' /\ feedbacks'[k] # Null)

C5_FeedbackKept == [][C5_FeedbackKeptStep]_vars

\* the position of the j-th non-null entry of arr
NthNonNull(arr, j) ==
  CHOOSE k \in DOMAIN arr :
    arr[k] # Null /\ Cardinality({m \in DOMAIN arr : m < k /\ arr[m] # Null}) = j - 1

\* seq holds exactly the non-null entries of arr, in order
IsNonNullPart(seq, arr) ==
  /\ Len(seq) = Cardinality({k \in DOMAIN arr : arr[k] # Null})
  /\ \A j \in DOMAIN seq : seq[j] = arr[NthNonNull(arr, j)]

ExpectedAnswers ==
  IF variant \in CodingVariants
  THEN [k \in 1..nq |-> <<"Language: ", languages[k], "\n", "\n">> \o answers[k]]
  ELSE answers

\* C6: next runs only when the current question has feedback; below the last
\* index it moves to the next index and changes no slot; on the last index it
\* calls onComplete with the questions, the answers (prefixed with the slot's
\* language in the coding round) and the non-null feedbacks, and leaves
\* currentIndex unchanged.
C6_NextStep ==
  lastOp' \in {"next", "complete"}
  => /\ currentFeedback # Null
     /\ answers' = answers /\ languages' = languages /\ feedbacks' = feedbacks
     /\ IF currentIndex + 1 < nq
        THEN /\ lastOp' = "next"
             /\ currentIndex' = currentIndex + 1
             /\ bundle' = bundle /\ completeCalls' = completeCalls
        ELSE /\ lastOp' = "complete"
             /\ currentIndex' = currentIndex
             /\ completeCalls' = completeCalls + 1
             /\ bundle'.questions = nq
             /\ bundle'.answers = ExpectedAnswers
             /\ IsNonNullPart(bundle'.feedbacks, feedbacks)

C6_Next == [][C6_NextStep]_vars

C6_Witness ==
  /\ lastOp = "complete" /\ variant \in CodingVariants /\ nq = MaxQ
  /\ Len(bundle.feedbacks) < nq

\* C7: in the voice session skip below the last question advances by one and
\* adds neither an answer nor a feedback; skip on the last question calls
\* onComplete with the answers and feedbacks collected so far.
C7_SkipStep ==
  /\ lastOp' = "skip"
     => /\ currentIndex < nq - 1 /\ currentIndex' = currentIndex + 1
        /\ answers' = answers /\ feedbacks' = feedbacks
        /\ bundle' = bundle
  /\ lastOp' = "skipComplete"
     => /\ currentIndex = nq - 1
        /\ answers' = answers /\ feedbacks' = feedbacks
        /\ bundle'.answers = answers /\ bundle'.feedbacks = feedbacks
        /\ completeCalls' = completeCalls + 1

C7_Skip == [][C7_SkipStep]_vars

C7_Witness ==
  /\ lastOp = "skipComplete" /\ nq > 1
  /\ Len(bundle.feedbacks) = 1 /\ Len(bundle.answers) = 1

\* ========================================================= speech claims
\* C8: speech capture and speech playback are never active at the same
\* instant: while the recognizer of the chat panel is capturing, no utterance
\* or chunk is playing
C8_CaptureExcludesPlayback ==
  variant = "panel" =>
    ~(recog = "running" /\ isRecordingRef
      /\ synthQueue # <<>> /\ Head(synthQueue).started)

\* C9: in every listener the durable transcript holds exactly the finalized
\* segments, in the order they were heard, the chat input holds nothing but
\* those or one interim segment, and every message sent onward holds exactly
\* what was finalized (or typed) for it: no interim segment is concatenated
\* into any of them
InterimTexts == {Letters(InterimTranscript(ev)) : ev \in Segments}

C9_TranscriptIsFinals ==
  /\ variant = "panel" => Letters(currentTranscript) = finalText
  /\ variant = "voice2" => Letters(transcript) = finalText
  /\ variant = "voice" =>
       /\ Letters(chatTranscript) = finalText
       /\ \E i \in InterimTexts \cup {<<>>} :
            Letters(chatMessage) \in {i, finalText \o i}
  /\ \A k \in DOMAIN sent : Letters(sent[k]) = sentSource[k]

\* C10: stopRecording clears the capturing flag and the recording state, the
\* end event that its stop() causes leaves the recognizer stopped, and it hands
\* the trimmed transcript to sendMessage exactly once or, when that is empty,
\* sends nothing and reports 'No Speech Detected'
C10_StopStep ==
  /\ lastOp' = "stopRecording" =>
       /\ ~isRecordingRef' /\ ~isRecording'
       /\ IF Trim(currentTranscript) # <<>>
          THEN /\ sent' = Append(sent, Trim(currentTranscript))
               /\ inflight' = inflight \cup {Len(sent')}
               /\ Len(sent') \notin inflight
               /\ lastToast' # "No Speech Detected"
          ELSE /\ sent' = sent /\ inflight' = inflight
               /\ lastToast' = "No Speech Detected"
  /\ (lastOp' = "recognitionEnd" /\ recog = "stopping") =>
       recog' = "idle" /\ ~isRecording'

C10_Stop == [][C10_StopStep]_vars

C10_Witness ==
  /\ variant = "panel" /\ lastOp = "recognitionEnd" /\ recog = "idle"
  /\ ~isRecordingRef /\ ~isRecording
  /\ sent = <<<<"a">>>> /\ inflight = {1} /\ isProcessing

\* C11: while capturing is true, an end event of the recognizer restarts it
\* and capturing stays true, in the chat panel, in the chat box of the voice
\* session and in the record-and-send voice session; a restart that throws
\* leaves capturing false
C11_RestartStep ==
  /\ (lastOp' = "recognitionEnd" /\ isRecordingRef) =>
       recog' = "running" /\ isRecordingRef' /\ isRecording'
  /\ lastOp' = "recognitionRestartFailed" =>
       recog' = "idle" /\ ~isRecordingRef' /\ ~isRecording'
  /\ (lastOp' = "chatRecognitionEnd" /\ isChatListening) =>
       recog' = "running" /\ isChatListening'
  /\ (lastOp' = "v2RecognitionEnd" /\ isRecording) =>
       recog' = "running" /\ isRecording'

C11_Restart == [][C11_RestartStep]_vars

\* C12: after cancel() removed a chunk of a message from the synthesizer, no
\* later chunk of that message is handed to the synthesizer or played
C12_CancelDiscardsChunks ==
  variant = "panel" =>
    \A k \in DOMAIN synthQueue : ~chains[synthQueue[k].chain].cut

\* the speakText calls that still have a chunk in the synthesizer or a
\* speakChunk timer pending
ActiveChains ==
  {synthQueue[k].chain : k \in DOMAIN synthQueue}
    \cup {t.chain : t \in {u \in panelTimers : u.kind = "chunk"}}

\* C13: a speakText call made while an earlier message is playing ends the
\* earlier one: the chain it cancelled is never active again, so at most one
\* chain is active and only chunks of the new text follow
C13_SpeakCancelsEarlier ==
  variant = "panel" =>
    /\ \A c \in ActiveChains : ~chains[c].cut
    /\ (\E c \in DOMAIN chains : chains[c].cut) => Cardinality(ActiveChains) <= 1

\* C18: within a speakText call that is not cancelled, a chunk is handed to the
\* synthesizer only when no chunk of the call is outstanding (the callback of
\* the one before has fired) and it is the chunk at currentChunk; every
\* callback moves currentChunk on by one, so the chunks go in index order, each
\* once; the callback of the last chunk sets the speaking flags to false.
UttsOf(q, c) == Cardinality({k \in DOMAIN q : q[k].chain = c})
ChunkTimersOf(ts, c) == Cardinality({t \in ts : t.kind = "chunk" /\ t.chain = c})
C18_SequentialStep ==
  variant = "panel" =>
    \A c \in DOMAIN chains' :
      LET known == c \in DOMAIN chains
          before == IF known THEN UttsOf(synthQueue, c) ELSE 0
          after == UttsOf(synthQueue', c)
          cur == IF known THEN chains[c].currentChunk ELSE 0
      IN  (~chains'[c].cut /\ (known => ~chains[c].cut)) =>
            /\ after + ChunkTimersOf(panelTimers', c) <= 1
            /\ after > before =>
                 /\ before = 0
                 /\ synthQueue'[Len(synthQueue')] =
                      [chain |-> c, chunk |-> cur, started |-> FALSE]
                 /\ chains'[c].currentChunk = cur /\ cur < chains'[c].n
            /\ after < before =>
                 IF cur + 1 < chains[c].n
                 THEN /\ chains'[c].currentChunk = cur + 1
                      /\ ChunkTimersOf(panelTimers', c) = 1
                 ELSE /\ chains'[c] = ChainOver
                      /\ ~isSpeaking' /\ ~isSpeakingRef'
            /\ (known /\ chains'[c] # chains[c]) => after < before
C18_Sequential == [][C18_SequentialStep]_vars
C18_Witness ==
  /\ variant = "panel"
  /\ \E c \in DOMAIN chains :
       /\ ~chains[c].cut /\ chains[c].n >= 2 /\ chains[c].currentChunk = 1
       /\ \E k \in DOMAIN synthQueue :
            synthQueue[k] = [chain |-> c, chunk |-> 1, started |-> TRUE]

\* C20: in the voice session the continuation handed to the playback of the
\* feedback is never lost: a step in which the synthesizer lets go of it (the
\* utterance ended, failed, or its cancellation was reported) runs it, that is,
\* sets the timer of the next question or calls onComplete once with the answers
\* and feedbacks including the one just submitted.
HeldContinuations ==
  (IF synthUtt # NoUtt THEN {synthUtt.cb} ELSE {}) \cup cancelled
C20_ContinuationStep ==
  variant \in VoiceVariants =>
    \A cb \in HeldContinuations \ {NoCb} :
      cb \notin HeldContinuations' =>
        \/ /\ cb.idx < nq - 1
           /\ timers' = timers \cup {[idx |-> cb.idx, autoSpeak |-> cb.autoSpeak]}
           /\ timers' # timers
        \/ /\ cb.idx = nq - 1
           /\ completeCalls' = completeCalls + 1
           /\ bundle' = VoiceBundle(Append(cb.ansSnap, cb.answer),
                                    Append(cb.fbSnap, cb.feedback))
C20_ContinuationRuns == [][C20_ContinuationStep]_vars

\* C21: in every voice component, a "no-speech" recognition error while
\* capturing raises no toast and leaves the capture flag true; every other
\* recognition error raises a toast and sets the capture flag to false.
ErrorOutcome(error, capturing) ==
  IF error = "no-speech"
  THEN lastToast' = "none" /\ capturing
  ELSE lastToast' # "none" /\ ~capturing
C21_ErrorStep ==
  \A error \in RecognitionErrors :
    /\ (isRecording /\ recognitionError(error)) => ErrorOutcome(error, isRecording')
    /\ (isChatListening /\ chatRecognitionError(error)) =>
         ErrorOutcome(error, isChatListening')
    /\ (isRecording /\ v2RecognitionError(error)) => ErrorOutcome(error, isRecording')
C21_ErrorClasses == [][C21_ErrorStep]_vars

\* C22: in the text and coding sessions at most one submit request is in
\* flight at any time.
C22_OneInFlight ==
  variant \in TextVariants \cup CodingVariants => Cardinality(pending) <= 1

\* C25: every bundle handed to onComplete has one feedback and one answer per
\* question, the feedback at position k being the one stored for question k.
C25_BundleAligned ==
  bundle # NoBundle =>
    /\ Len(bundle.feedbacks) = bundle.questions
    /\ Len(bundle.answers) = bundle.questions
    /\ variant \in TextVariants \cup CodingVariants =>
         \A k \in 1..Len(bundle.feedbacks) : bundle.feedbacks[k] = ArrayGet(feedbacks, k - 1)

\* C26: in the coding session with the navigator, the response to a submit of
\* one question leaves the feedback, answer and language of every other
\* question as they are, so what an earlier response stored is never erased.
C26_ResponseStep ==
  variant = "codingNav" =>
    \A r \in pending, score \in ScoreTenths :
      CodingSubmitResolved(r, score) =>
        \A k \in 0..(nq - 1) :
          k # r.idx =>
            /\ ArrayGet(feedbacks', k) = ArrayGet(feedbacks, k)
            /\ ArrayGet(answers', k) = ArrayGet(answers, k)
            /\ ArrayGet(languages', k) = ArrayGet(languages, k)
C26_BothSlotsKept == [][C26_ResponseStep]_vars

\* C27: in the text session the response to a submit of question i stores the
\* feedback in slot i and changes no other slot, wherever the user has
\* navigated in the meantime, and leaves every answer as it was.
C27_ResponseStep ==
  variant \in TextVariants =>
    \A r \in pending, score \in ScoreTenths :
      TextSubmitResolved(r, score) =>
        /\ ArrayGet(feedbacks', r.idx) = Feedback(score)
        /\ Len(feedbacks') = Len(feedbacks)
        /\ \A k \in 0..(nq - 1) :
             k # r.idx => ArrayGet(feedbacks', k) = ArrayGet(feedbacks, k)
        /\ answers' = answers
C27_FeedbackInOwnSlot == [][C27_ResponseStep]_vars
\* a response has just arrived for a question other than the one shown
C27_Witness ==
  /\ variant \in TextVariants
  /\ lastOp = "submitResolved"
  /\ currentFeedback = Null
  /\ \E k \in 0..(nq - 1) : k # currentIndex /\ ArrayGet(feedbacks, k) # Null

\* C28: in both voice session variants the index of the current question
\* always stays below questions.length, whatever the interleaving of skip, the
\* continuation run at the end of the feedback playback and the timers.
C28_IndexInRange ==
  (variant \in VoiceVariants \cup {"voice2"} /\ Mounted) => currentIndex < nq

\* C29: in both voice session variants no question is scored twice: answers
\* and feedbacks never hold more entries than there are questions, and neither
\* does the bundle handed to onComplete.
C29_ScoredOnce ==
  variant \in VoiceVariants \cup {"voice2"} =>
    /\ Len(answers) <= nq
    /\ Len(feedbacks) <= nq
    /\ bundle # NoBundle => Len(bundle.feedbacks) <= bundle.questions

\* ========================================================= editor claims
\* C14: a change of the editor language replaces the buffer with the new
\* language's starter template exactly when the buffer is empty or equals the
\* previous language's starter template, leaves the buffer unchanged otherwise,
\* and clears the previous execution result in both cases.
C14_LanguageChangeStep ==
  lastOp' = "languageChange" =>
    /\ output' = Null
    /\ editorCode' = IF editorCode = <<>> \/ editorCode = codeTemplates[editorLanguage]
                     THEN codeTemplates[editorLanguage'] ELSE editorCode
C14_LanguageChange == [][C14_LanguageChangeStep]_vars

\* C15: at most one execution request is in flight at any time, and no request
\* carries a blank source.
C15_RunGuard ==
  variant \in EditorVariants =>
    /\ Len(runs) <= 1
    /\ \A k \in DOMAIN runs : Trim(runs[k].sourceCode) # <<>>

\* C16: when the 20 s timer fires while the request is pending, the request is
\* dropped, the result shown has status "Timeout" (not "Error"), and executing
\* is false again.
C16_TimeoutStep ==
  lastOp' = "runTimeout" =>
    /\ output'.status = "Timeout"
    /\ ~executing'
    /\ runs' = <<>>
C16_Timeout == [][C16_TimeoutStep]_vars
C16_Witness ==
  /\ lastOp = "runTimeout"
  /\ output # Null /\ output.status = "Timeout"
  /\ ~executing

\* the 20 s timer of run k is still armed: it is cleared when fetch resolves
TimeoutArmed(k) == runs[k].phase = "fetch"

\* C30: every run ends by itself with executing false and a result, whichever
\* phase of the remote call hangs: a run that has not ended always has its
\* timeout armed, the only step that ends it without the server.
C30_RunEnds ==
  variant \in EditorVariants =>
    \A k \in DOMAIN runs : executing /\ TimeoutArmed(k)

\* ======================================================== results claims
\* r is sum / number rounded to the nearest integer (the scores are in tenths)
IsRounded(r, fs) ==
  /\ 20 * Len(fs) * r - 10 * Len(fs) <= 2 * SumScores(fs)
  /\ 2 * SumScores(fs) < 20 * Len(fs) * r + 10 * Len(fs)
Scenario == <<Feedback(900), Feedback(550), Feedback(700)>>

\* C17 as stated: the overall score shown is the sum of the feedback scores
\* divided by their number, rounded to the nearest integer; scores 90, 55, 70
\* show 72; and every overall score from 60 to 79 is labelled "Good Work".
C17_GoodWorkBand ==
  variant = "results" =>
    \A r \in overallShown :
      /\ IsRounded(r, feedbacks)
      /\ feedbacks = Scenario => r = 72
      /\ (60 <= r /\ r <= 79) => labelShown = {"Good Work"}

\* C17 as amended: the same, with "Good Work" for every overall score from 70
\* to 79 and "Keep Practicing" from 60 to 69.
C17_OverallScore ==
  variant = "results" =>
    \A r \in overallShown :
      /\ IsRounded(r, feedbacks)
      /\ feedbacks = Scenario => r = 72 /\ labelShown = {"Good Work"}
      /\ (70 <= r /\ r <= 79) => labelShown = {"Good Work"}
      /\ (60 <= r /\ r <= 69) => labelShown = {"Keep Practicing"}
C17_Witness ==
  /\ variant = "results"
  /\ feedbacks = Scenario
  /\ overallShown = {72}
  /\ labelShown = {"Good Work"}

\* ======================================================= chunking claims
RECURSIVE Concat(_)
Concat(cs) == IF cs = <<>> THEN <<>> ELSE Head(cs) \o Concat(Tail(cs))

\* C19: for every text, speakText makes ceil(length / 200) chunks of 1 to 200
\* characters each, and the chunks in order, put together, are the text.
C19_FixedWidthChunks ==
  (variant = "chunks" /\ speechChunks # <<>>) =>
    /\ Len(speechChunks) = (Len(speechText) + maxLength - 1) \div maxLength
    /\ \A k \in DOMAIN speechChunks :
         1 <= Len(speechChunks[k]) /\ Len(speechChunks[k]) <= maxLength
    /\ Concat(speechChunks) = speechText

\* ========================================================== timer claims
\* C23: once the session component is torn down, neither the ticker nor the
\* auto-save timeout is set, so no timer callback runs and elapsedTime and
\* autoSaved keep their values.
C23_TornStep ==
  (variant \in TimedVariants /\ torn) =>
    /\ ~ticker /\ ~saveTimer
    /\ lastOp' \notin {"tick", "autoSaveFired"}
    /\ elapsedTime' = elapsedTime /\ autoSaved' = autoSaved
C23_NoTimerAfterTeardown == [][C23_TornStep]_vars
C23_Witness ==
  /\ variant \in TimedVariants
  /\ torn /\ lastOp = "teardown"
  /\ elapsedTime > 0
  /\ currentAnswer # <<>> /\ ~autoSaved

\* C24: the auto-save flag is false right after every change of the current
\* answer by a keystroke, also one that empties it; it turns true only when the
\* timeout set at the last change fires, and every change to a non-empty text
\* sets that timeout anew.
C24_AutoSaveStep ==
  variant = "textTimed" =>
    /\ (lastOp' = "updateAnswer" /\ currentAnswer' # currentAnswer) =>
         /\ ~autoSaved'
         /\ currentAnswer' # <<>> => saveTimer'
    /\ (autoSaved' /\ ~autoSaved) => (lastOp' = "autoSaveFired" /\ saveTimer)
C24_AutoSave == [][C24_AutoSaveStep]_vars

====
